---- MODULE Spec2Model ----
(***************************************************************************)
(* Model of the WordPress migration tools of ecossistema-infra:            *)
(*   src/migration/wp_migrate.py        (the eight-step migration)         *)
(*   src/migration/wp_import_images.py  (the featured-image importer)      *)
(* One operator runs one process at a time.  A process is an invocation of *)
(* main(); it can be killed at any label, and an uncaught Python exception *)
(* ends it as well.  The state file, the media cache and the remote        *)
(* services outlive the process.                                           *)
(***************************************************************************)
EXTENDS Integers, Sequences, FiniteSets, TLC

\* ------------------------------------------------------------------ bounds
\* The source site: how many categories, posts, pages and media items the
\* WordPress API returns.
NumCats == 3
NumPosts == 2
NumPages == 3
NumMedia == 4
\* In one behaviour: the calls the environment fails without ending the
\* process (an error status, a failed download), the times it ends the
\* process (a kill, a raised network error), and the invocations of main().
MaxFaults == 1
MaxAborts == 1
MaxRuns == 2
\* The published articles without a featured image that the importer finds.
NumArticles == 3
\* The most source category ids a post lists.
MaxCatIds == 2
\* The answers a source has before it answers 400 to every page.
MaxPages == 3
\* The longest side, in pixels, of the images resized.
MaxSide == 1700
MaxText == 7
MaxHtml == 6

\* ------------------------------------------------------- program constants
NumAdditionalPages == 4
NumHeaderItems == 7
NumFooterItems == 4
NumContacts == 3
\* wp_import_images saves its state every SavePeriod imports.
SavePeriod == 10
\* MAX_WIDTH, MAX_HEIGHT of wp_import_images, and the significant bits of a
\* Python float.
MAX_WIDTH == 1200
MAX_HEIGHT == 800
MantissaBits == 53

\* ------------------------------------------------------------- basic values
\* Python's None; target ids are non-empty tuples, so they are truthy.
None == <<>>

\* str(wp_id): the decimal text of the id, the key type of every id map.
Str(n) == ToString(n)

Range(s) == {s[k] : k \in DOMAIN s}

EmptyMap == [k \in {} |-> None]

\* d[key] = value on a dict
Put(d, key, value) == [k \in DOMAIN d \cup {key} |-> IF k = key THEN value ELSE d[k]]

\* The id the target service returns for the n-th record it creates for an
\* entity: a fresh value, never reused (UUIDs in the real services).
NewId(e, n) == <<e[1], e[2], n>>

\* ------------------------------------------------------------ the source
\* WP_CATEGORY_MAP: the slugs with curated names.
WP_CATEGORY_SLUGS == {"diplomacia", "politica", "economia", "cultura", "desporto",
                      "turismo", "diaspora", "reportagem", "responsabilidade-social",
                      "webinares", "destaques"}

\* WP_PAGE_MAP: the page ids with an explicit mapping.
WP_PAGE_MAP == {3162, 3191, 3183, 3178, 3200, 1274, 1282, 1277, 1271, 1236, 1286,
                71, 1793, 1796, 5501, 1582, 1580, 1578}

\* What wp_fetch_all("categories") returns.
WpCat(k) ==
    CASE k = 1 -> [id |-> 5, slug |-> "diplomacia"]
      [] k = 2 -> [id |-> 1, slug |-> "uncategorized"]
      [] OTHER -> [id |-> 5 + k, slug |-> "comunidade"]
WpCats == [k \in 1..NumCats |-> WpCat(k)]

\* What wp_fetch_all("media") returns: images, but for item 3, a PDF, and
\* item 4, an image with no source URL. 201 is the featured media of post 1
\* and of the unmapped page 2, 202 of the mapped page 1, 203 of post 2 and
\* 204 of the mapped pages from the third on.
WpMediaItem(k) ==
    CASE k = 3 -> [id |-> 203, source_url |-> "url", mime_type |-> "application/pdf"]
      [] k = 4 -> [id |-> 204, source_url |-> "", mime_type |-> "image/jpeg"]
      [] OTHER -> [id |-> 200 + k, source_url |-> "url", mime_type |-> "image/jpeg"]
WpMedia == [k \in 1..NumMedia |-> WpMediaItem(k)]

\* What wp_fetch_all("posts") returns.
WpPost(k) ==
    [id |-> 100 + k,
     categories |-> IF k % 2 = 1 THEN <<99, 5>> ELSE <<1>>,
     featured_media |-> IF k % 2 = 1 THEN 200 + k ELSE 203]
WpPosts == [k \in 1..NumPosts |-> WpPost(k)]

\* What wp_fetch_all("pages") returns: page 1 is "A Embaixada" (mapped), page
\* 2 has no mapping, the following ones are mapped again.
WpPage(k) ==
    CASE k = 1 -> [id |-> 71, featured_media |-> 202]
      [] k = 2 -> [id |-> 4000, featured_media |-> 201]
      [] OTHER -> [id |-> 1274, featured_media |-> 204]
WpPages == [k \in 1..NumPages |-> WpPage(k)]

\* The slugs of additional_pages in create_additional_si_pages.
AdditionalSlugs == <<"sobre-angola", "embaixador", "relacoes-bilaterais", "servicos-consulares">>

\* ------------------------------------------------------------ the ledger
\* A bug to test the claims against: media is imported before the author exists.
STEP_ORDER_swapped == <<"categories", "media", "author", "posts", "pages",
                        "additional_pages", "menus", "contacts">>

STEP_ORDER == <<"categories", "author", "media", "posts", "pages",
                "additional_pages", "menus", "contacts">>

STEPS == Range(STEP_ORDER)

\* MigrationState.__init__: the fresh ledger.
EmptyLedger ==
    [wp_categories |-> EmptyMap,
     wn_author_id |-> None,
     wp_posts |-> EmptyMap,
     wp_pages |-> EmptyMap,
     wp_media_si |-> EmptyMap,
     wp_media_wn |-> EmptyMap,
     si_menus |-> EmptyMap,
     si_contacts |-> <<>>,
     completed_steps |-> <<>>]

\* The state file: absent, a whole JSON document, or a file that was opened
\* for writing (truncated) and never completed.
AbsentFile == [st |-> "absent", data |-> EmptyLedger]
CorruptFile == [st |-> "corrupt", data |-> EmptyLedger]
\* json.dump of a state of either tool, as the structure of the text: a
\* dict is an object, a set of members with text keys; a list is an array;
\* None is null.  The keys of the program's dicts are str already.
json_dump(d) ==
    LET object(m) == {<<k, <<"value", m[k]>>>> : k \in DOMAIN m}
        array(l) == [i \in DOMAIN l |-> <<"value", l[i]>>]
    IN [f \in DOMAIN d |->
          IF f \in {"si_contacts", "completed_steps", "failed", "skipped"} THEN array(d[f])
          ELSE IF f = "wn_author_id"
               THEN (IF d[f] = None THEN <<"null">> ELSE <<"value", d[f]>>)
          ELSE object(d[f])]

\* A bug to test the claims against: null is not turned back into None.
json_load_raw(text) ==
    LET dict(o) == [k \in {p[1] : p \in o} |-> (CHOOSE p \in o : p[1] = k)[2][2]]
        list(a) == [i \in DOMAIN a |-> a[i][2]]
    IN [f \in DOMAIN text |->
          IF f \in {"si_contacts", "completed_steps", "failed", "skipped"} THEN list(text[f])
          ELSE IF f = "wn_author_id" THEN text[f]
          ELSE dict(text[f])]

\* json.load of the text json.dump wrote.
json_load(text) ==
    LET dict(o) == [k \in {p[1] : p \in o} |-> (CHOOSE p \in o : p[1] = k)[2][2]]
        list(a) == [i \in DOMAIN a |-> a[i][2]]
    IN [f \in DOMAIN text |->
          IF f \in {"si_contacts", "completed_steps", "failed", "skipped"} THEN list(text[f])
          ELSE IF f = "wn_author_id"
               THEN (IF text[f] = <<"null">> THEN None ELSE text[f][2])
          ELSE dict(text[f])]

ValidFile(d) == [st |-> "valid", data |-> json_dump(d)]

\* MigrationState._load: the defaults updated with the saved document.
Load(file) ==
    IF file.st = "valid"
    THEN LET saved == json_load(file.data)
         IN [f \in DOMAIN EmptyLedger \cup DOMAIN saved |->
               IF f \in DOMAIN saved THEN saved[f] ELSE EmptyLedger[f]]
    ELSE EmptyLedger

\* A bug to test the claims against: is_done always answers no.
is_done_never(d, step) == FALSE

\* A bug to test the claims against: is_done looks at the last completed step only.
is_done_last(d, step) ==
    Len(d.completed_steps) > 0 /\ d.completed_steps[Len(d.completed_steps)] = step

\* MigrationState.is_done
is_done(d, step) == step \in Range(d.completed_steps)

\* A bug to test the claims against: the id map is not consulted.
already_migrated_unchecked(d, map, key) == FALSE

\* str(wp_id) in state.data[map]: the entity has a target id in the ledger.
already_migrated(d, map, key) == key \in DOMAIN d[map]

\* ------------------------------------------------------ remote endpoints
\* The endpoints of the remote calls, one per entity.
CategoryEntities == {<<"category", Str(WpCats[k].id)>> : k \in 1..NumCats}
MediaEntities == {<<"media_wn", Str(WpMedia[k].id)>> : k \in 1..NumMedia}
                 \cup {<<"media_si", Str(WpMedia[k].id)>> : k \in 1..NumMedia}
PostEntities == {<<"post", Str(WpPosts[k].id)>> : k \in 1..NumPosts}
PageEntities == {<<"page", Str(WpPages[k].id)>> : k \in 1..NumPages}
AdditionalEntities == {<<"page", "additional_" \o AdditionalSlugs[k]>> : k \in 1..NumAdditionalPages}
MenuEntities == {<<"menu", "HEADER">>, <<"menu", "FOOTER">>}
ItemEntities == {<<"header_item", Str(k)>> : k \in 1..NumHeaderItems}
                \cup {<<"footer_item", Str(k)>> : k \in 1..NumFooterItems}
ContactEntities == {<<"contact", Str(k)>> : k \in 1..NumContacts}
AuthorEntity == <<"author", "author">>

\* The entities a POST creates or a multipart upload stores.
CreateEntities ==
    CategoryEntities \cup MediaEntities \cup PostEntities \cup PageEntities
    \cup AdditionalEntities \cup MenuEntities \cup ItemEntities \cup ContactEntities
    \cup {AuthorEntity}

\* The PATCH calls: the editorial workflow of an article, the estado of a page.
PatchEntities ==
    {<<op, e[2]>> : op \in {"submit", "review", "publish"}, e \in PostEntities}
    \cup {<<"estado", e[2]>> : e \in PageEntities \cup AdditionalEntities}

TokenEntity == <<"token", "keycloak">>

Endpoints == CreateEntities \cup PatchEntities \cup {TokenEntity}

\* The id map of the ledger that holds the entities of a kind.
MapOf(kind) ==
    CASE kind = "category" -> "wp_categories"
      [] kind = "post" -> "wp_posts"
      [] kind = "page" -> "wp_pages"
      [] kind = "media_wn" -> "wp_media_wn"
      [] kind = "media_si" -> "wp_media_si"
      [] kind = "menu" -> "si_menus"

IdMapKinds == {"category", "post", "page", "media_wn", "media_si"}

\* What a remote call can do: answer 200/201, answer another status, or
\* raise (connection error, timeout).
Outcomes == {"ok", "rejected", "raised"}

VARIABLES
    disk,       \* migration_state.json
    cache,      \* media_cache: media id -> "none" | "full" | "partial"
    created,    \* per endpoint, the requests the service answered with 200/201
    reqs,       \* the endpoints this invocation has sent a request to
    pc,         \* where the process is ("idle": no process)
    run,        \* the command line of the current (or last) invocation
    exit,       \* how the current (or last) invocation ended
    call,       \* the step function being executed
    idx,        \* the loop index inside the step
    after,      \* where the process continues after state.save()
    mem,        \* state.data of the process
    reads,      \* source endpoints fetched by this invocation
    failed,     \* entities whose creation was answered with an error, this invocation
    start,      \* the ledger this invocation loaded
    prev,       \* the invocation before this one
    trace,      \* the calls and returns of step functions in this invocation
    env,        \* what the environment of this behaviour does: fail calls, end processes
    faults,     \* failed calls so far
    aborts,     \* kills and raised errors so far
    nruns       \* invocations so far

\* wp_migrate's own variables.
migVars == <<disk, cache, created, reqs, pc, run, exit, call, idx, after, mem,
             reads, failed, start, prev, trace>>

\* wp_import_images
VARIABLES
    img_disk,   \* wp_images_state.json
    img_cache,  \* media_cache of the importer: slug -> "none" | "full" | "partial"
    minio,      \* the object keys stored in the wn-media bucket
    db,         \* wn_db: articles.featured_image_id per slug, the ids in media_files
    img_pc,     \* where the importer process is ("idle": no process)
    img_run,    \* its command line
    img_exit,   \* how the current (or last) importer process ended
    articles,   \* what fetch_articles_without_images returned
    img_idx,    \* the loop index
    img_after,  \* where the process continues after save_state
    img_mem,    \* the state dict of the process
    counters,   \* imported, skipped, failed
    media_id,   \* the uuid of the image being imported
    uuids,      \* uuid4 calls so far
    img_start   \* the state this invocation loaded

imgVars == <<img_disk, img_cache, minio, db, img_pc, img_run, img_exit, articles,
             img_idx, img_after, img_mem, counters, media_id, uuids, img_start>>

\* The functions checked on their own, each on inputs drawn from bounded sets.
VARIABLES
    tf,         \* one iteration of migrate_posts: its inputs, label and payload
    fetch,      \* one call of wp_fetch_all: the source, label, page and items
    fn          \* one call of a helper function: its name, arguments and result

pureVars == <<tf, fetch, fn>>

vars == <<migVars, imgVars, pureVars, env, faults, aborts, nruns>>


MediaIds == {WpMedia[k].id : k \in 1..NumMedia}

NoRun == [mode |-> "none", dry |-> FALSE, step |-> "", si |-> 0]
NoCall == ""
NoExit == [how |-> "none", cause |-> "none"]
Running == [how |-> "running", cause |-> "none"]

\* The environments explored.  One that fails calls and ends processes in the
\* same behaviour is explored for sequences of real full runs only.
Environments ==
    {[fail |-> TRUE, abort |-> FALSE, full_only |-> FALSE],
     [fail |-> FALSE, abort |-> TRUE, full_only |-> FALSE],
     [fail |-> TRUE, abort |-> TRUE, full_only |-> TRUE]}

\* ------------------------------------------------- the importer's data
\* The slugs of the published articles of wn_db, in the order of the query
\* of fetch_articles_without_images.
ArticleSlug(k) == "artigo-" \o Str(k)
Articles == [k \in 1..NumArticles |-> ArticleSlug(k)]
ArticleSlugs == Range(Articles)

\* Whether the WordPress post of the slug has a featured image: every post
\* but the second.
HasFeaturedImage(slug) == slug # ArticleSlug(2)

\* load_state: the state of a first run.
EmptyImgState == [imported |-> EmptyMap, failed |-> <<>>, skipped |-> <<>>]

AbsentImgFile == [st |-> "absent", data |-> EmptyImgState]
CorruptImgFile == [st |-> "corrupt", data |-> EmptyImgState]
ValidImgFile(d) == [st |-> "valid", data |-> json_dump(d)]

\* load_state, for a file that json.loads accepts.
load_state(file) == IF file.st = "valid" THEN json_load(file.data) ELSE EmptyImgState

\* fetch_articles_without_images, then articles[:limit] when limit > 0.
fetch_articles_without_images(d, limit) ==
    LET rows == SelectSeq(Articles, LAMBDA slug : d.featured[slug] = None)
    IN IF limit > 0 /\ limit < Len(rows) THEN SubSeq(rows, 1, limit) ELSE rows

NoCounters == [imported |-> 0, skipped |-> 0, failed |-> 0]

\* No iteration of migrate_posts and no call of wp_fetch_all is under way.
NoTransform == [pc |-> "idle"]
NoFetch == [pc |-> "idle"]
NoFn == [pc |-> "idle"]

\* The two tools before their first invocation.
InitTools ==
    /\ disk = AbsentFile
    /\ cache = [m \in MediaIds |-> "none"]
    /\ created = [e \in Endpoints |-> 0]
    /\ reqs = {}
    /\ pc = "idle"
    /\ run = NoRun
    /\ exit = NoExit
    /\ call = NoCall
    /\ idx = 0
    /\ after = ""
    /\ mem = EmptyLedger
    /\ reads = {}
    /\ failed = {}
    /\ start = EmptyLedger
    /\ prev = [mode |-> "none", dry |-> FALSE, step |-> "", exit |-> "none", failed |-> {}]
    /\ trace = <<>>
    /\ faults = 0
    /\ aborts = 0
    /\ nruns = 0
    /\ img_disk = AbsentImgFile
    /\ img_cache = [slug \in ArticleSlugs |-> "none"]
    /\ minio = {}
    /\ db = [featured |-> [slug \in ArticleSlugs |-> None], media_files |-> {}]
    /\ img_pc = "idle"
    /\ img_run = [dry |-> FALSE, limit |-> 0]
    /\ img_exit = NoExit
    /\ articles = <<>>
    /\ img_idx = 0
    /\ img_after = ""
    /\ img_mem = EmptyImgState
    /\ counters = NoCounters
    /\ media_id = None
    /\ uuids = 0
    /\ img_start = EmptyImgState

Init ==
    /\ InitTools
    /\ env \in Environments
    /\ tf = NoTransform
    /\ fetch = NoFetch
    /\ fn = NoFn

\* ------------------------------------------------------------- helpers
\* The process ends: it returned from main(), was killed, called sys.exit
\* or died of an uncaught exception.
End(how, cause) ==
    /\ pc' = "idle"
    /\ exit' = [how |-> how, cause |-> cause]

CanFail == env.fail /\ faults < MaxFaults
CanAbort == env.abort /\ aborts < MaxAborts

\* One remote call to endpoint e with outcome o.
Send(e, o) ==
    /\ o = "rejected" => CanFail
    /\ o = "raised" => CanAbort
    /\ reqs' = reqs \cup {e}
    /\ created' = IF o = "ok" THEN [created EXCEPT ![e] = @ + 1] ELSE created
    /\ faults' = IF o = "rejected" THEN faults + 1 ELSE faults
    /\ aborts' = IF o = "raised" THEN aborts + 1 ELSE aborts

\* wp_fetch_all for the endpoints a step reads; it raises on a network error
\* or a 5xx answer (raise_for_status).
Fetch(step, endpoints, o) ==
    /\ o = "raised" => CanAbort
    /\ reads' = reads \cup {<<step, ep>> : ep \in endpoints}
    /\ aborts' = IF o = "raised" THEN aborts + 1 ELSE aborts

\* A bug to test the claims against: mark_step records nothing.
mark_step_forgets(step) ==
    /\ pc' = "ret"
    /\ UNCHANGED <<mem, after>>

\* MigrationState.mark_step, called as the last statement of a step.
mark_step(step) ==
    IF step \in Range(mem.completed_steps)
    THEN /\ pc' = "ret"
         /\ UNCHANGED <<mem, after>>
    ELSE /\ mem' = [mem EXCEPT !.completed_steps = Append(@, step)]
         /\ pc' = "save"
         /\ after' = "ret"

\* ---------------------------------------------------------------- main
\* main(): parse the command line, construct MigrationState (which loads the
\* state file), handle --reset and --status.
main_load(mode, dry, step) ==
    /\ pc = "idle"
    /\ nruns < MaxRuns
    /\ env.full_only => mode = "full" /\ ~dry
    /\ nruns' = nruns + 1
    /\ prev' = [mode |-> run.mode, dry |-> run.dry, step |-> run.step,
                 exit |-> exit.how, failed |-> failed]
    /\ run' = [mode |-> mode, dry |-> dry, step |-> step, si |-> 1]
    /\ start' = Load(disk)
    /\ trace' = <<>>
    /\ reads' = {}
    /\ reqs' = {}
    /\ failed' = {}
    /\ call' = NoCall
    /\ idx' = 0
    /\ after' = ""
    /\ UNCHANGED <<cache, created, faults, aborts>>
    /\ IF disk.st = "corrupt"
       THEN \* json.load raises JSONDecodeError inside MigrationState()
            /\ End("exception", "load")
            /\ mem' = EmptyLedger
            /\ UNCHANGED disk
       ELSE /\ mem' = Load(disk)
            /\ CASE mode = "reset" ->
                      /\ disk' = AbsentFile
                      /\ End("ok", "none")
                 [] mode = "status" ->
                      /\ UNCHANGED disk
                      /\ End("ok", "none")
                 [] OTHER ->
                      /\ UNCHANGED disk
                      /\ pc' = "auth"
                      /\ exit' = Running
    /\ UNCHANGED <<env, imgVars, pureVars>>

\* A bug to test the claims against: a refused token exchange is not fatal.
get_keycloak_token_lenient(o) ==
    /\ Send(TokenEntity, o)
    /\ CASE o = "raised" -> End("exception", "auth")
         [] OTHER -> pc' = "dispatch" /\ UNCHANGED exit

\* get_keycloak_token: one POST to Keycloak; any status but 200 is sys.exit(1),
\* a network error propagates out of main().
get_keycloak_token(o) ==
    /\ Send(TokenEntity, o)
    /\ CASE o = "ok" -> pc' = "dispatch" /\ UNCHANGED exit
         [] o = "rejected" -> End("sysexit", "auth")
         [] o = "raised" -> End("exception", "auth")

\* main(): get_keycloak_token unless --dry-run.
main_auth ==
    /\ pc = "auth"
    /\ UNCHANGED <<disk, cache, run, call, idx, after, mem, reads, failed, start, prev, nruns>>
    /\ IF run.dry
       THEN /\ pc' = "dispatch"
            /\ UNCHANGED <<created, reqs, faults, aborts, exit>>
       ELSE \E o \in Outcomes : get_keycloak_token(o)
    /\ UNCHANGED <<env, imgVars, pureVars, trace>>

\* A bug to test the claims against: --step NAME runs the steps of
\* STEP_ORDER up to NAME.
steps_of_upto(r) ==
    IF r.mode = "full" THEN STEP_ORDER
    ELSE SubSeq(STEP_ORDER, 1, CHOOSE k \in 1..Len(STEP_ORDER) : STEP_ORDER[k] = r.step)

\* main(): the step functions an invocation calls, in order: STEPS[args.step]
\* alone, or every step of STEP_ORDER.
steps_of(r) == IF r.mode = "full" THEN STEP_ORDER ELSE <<r.step>>

\* main(): call the next step function, or print the summary and return.
main_dispatch ==
    /\ pc = "dispatch"
    /\ UNCHANGED <<disk, cache, created, reqs, run, idx, after, mem, reads, failed,
                   start, prev, faults, aborts, nruns>>
    /\ LET last == Len(steps_of(run))
           name == steps_of(run)[run.si]
       IN IF run.si > last
          THEN /\ End("ok", "none")
               /\ UNCHANGED <<call, trace>>
          ELSE /\ pc' = "enter"
               /\ call' = name
               /\ trace' = Append(trace, <<"call", name>>)
               /\ UNCHANGED exit
    /\ UNCHANGED <<env, imgVars, pureVars>>

\* main(): the step function returned.
main_return ==
    /\ pc = "ret"
    /\ pc' = "dispatch"
    /\ run' = [run EXCEPT !.si = @ + 1]
    /\ trace' = Append(trace, <<"return", call>>)
    /\ UNCHANGED <<disk, cache, created, reqs, exit, call, idx, after, mem, reads,
                   failed, start, prev, faults, aborts, nruns>>
    /\ UNCHANGED <<env, imgVars, pureVars>>

\* MigrationState.save: the whole document is written.
save ==
    /\ pc = "save"
    /\ disk' = ValidFile(mem)
    /\ pc' = after
    /\ UNCHANGED <<cache, created, reqs, run, exit, call, idx, after, mem, reads,
                   failed, start, prev, faults, aborts, nruns>>
    /\ UNCHANGED <<env, imgVars, pureVars, trace>>

\* The process is killed (SIGKILL, power loss) at any label.
kill ==
    /\ pc # "idle"
    /\ CanAbort
    /\ aborts' = aborts + 1
    /\ End("killed", "none")
    /\ UNCHANGED <<disk, cache, created, reqs, run, call, idx, after, mem, reads,
                   failed, start, prev, faults, nruns>>
    /\ UNCHANGED <<env, imgVars, pureVars, trace>>

\* The process is killed inside save(): open(STATE_FILE, "w") has truncated
\* the file and json.dump has not completed.
kill_in_save ==
    /\ pc = "save"
    /\ CanAbort
    /\ aborts' = aborts + 1
    /\ disk' = CorruptFile
    /\ End("killed", "none")
    /\ UNCHANGED <<cache, created, reqs, run, call, idx, after, mem, reads,
                   failed, start, prev, faults, nruns>>
    /\ UNCHANGED <<env, imgVars, pureVars, trace>>

\* ------------------------------------------------- step 1: categories
migrate_categories_enter ==
    /\ pc = "enter" /\ call = "categories"
    /\ UNCHANGED <<disk, cache, created, reqs, run, call, after, mem, failed,
                   start, prev, faults, nruns>>
    /\ IF is_done(mem, "categories")
       THEN /\ pc' = "ret"
            /\ UNCHANGED <<idx, reads, aborts, exit>>
       ELSE \E o \in {"ok", "raised"} :
              /\ Fetch("categories", {"categories"}, o)
              /\ idx' = 1
              /\ IF o = "ok" THEN pc' = "loop" /\ UNCHANGED exit
                             ELSE End("exception", "source")
    /\ UNCHANGED <<env, imgVars, pureVars, trace>>

migrate_categories_iter ==
    /\ pc = "loop" /\ call = "categories" /\ idx <= Len(WpCats)
    /\ UNCHANGED <<disk, cache, run, call, reads, start, prev, nruns>>
    /\ LET cat == WpCats[idx]
           key == Str(cat.id)
           e == <<"category", key>>
       IN IF \/ cat.slug = "uncategorized"
             \/ already_migrated(mem, "wp_categories", key)
             \/ run.dry
          THEN /\ idx' = idx + 1
               /\ UNCHANGED <<created, reqs, pc, exit, after, mem, failed, faults, aborts>>
          ELSE \E o \in Outcomes :
                 /\ Send(e, o)
                 /\ CASE o = "ok" ->
                           /\ mem' = [mem EXCEPT !.wp_categories = Put(@, key, NewId(e, created'[e]))]
                           /\ pc' = "save"
                           /\ after' = "loop"
                           /\ idx' = idx + 1
                           /\ UNCHANGED <<exit, failed>>
                      [] o = "rejected" ->
                           /\ failed' = failed \cup {e}
                           /\ idx' = idx + 1
                           /\ UNCHANGED <<pc, exit, after, mem>>
                      [] o = "raised" ->
                           /\ End("exception", "entity")
                           /\ UNCHANGED <<idx, after, mem, failed>>
    /\ UNCHANGED <<env, imgVars, pureVars, trace>>

migrate_categories_end ==
    /\ pc = "loop" /\ call = "categories" /\ idx > Len(WpCats)
    /\ UNCHANGED <<disk, cache, created, reqs, run, exit, call, idx, reads, failed,
                   start, prev, faults, aborts, nruns>>
    /\ IF run.dry
       THEN pc' = "ret" /\ UNCHANGED <<mem, after>>
       ELSE mark_step("categories")
    /\ UNCHANGED <<env, imgVars, pureVars, trace>>

\* ----------------------------------------------------- step 2: author
\* A bug to test the claims against: the ledger is not asked for the author.
author_exists_never(d) == FALSE

\* create_wn_author: if state.data["wn_author_id"]
author_exists(d) == d.wn_author_id # None

create_wn_author ==
    /\ pc = "enter" /\ call = "author"
    /\ UNCHANGED <<disk, cache, run, call, idx, reads, start, prev, nruns>>
    /\ IF is_done(mem, "author")
       THEN /\ pc' = "ret"
            /\ UNCHANGED <<created, reqs, exit, after, mem, failed, faults, aborts>>
       ELSE IF author_exists(mem)
       THEN /\ mark_step("author")
            /\ UNCHANGED <<created, reqs, exit, failed, faults, aborts>>
       ELSE IF run.dry
       THEN /\ pc' = "ret"
            /\ UNCHANGED <<created, reqs, exit, after, mem, failed, faults, aborts>>
       ELSE \E o \in Outcomes :
              /\ Send(AuthorEntity, o)
              /\ CASE o = "ok" ->
                        /\ mem' = [mem EXCEPT !.wn_author_id = NewId(AuthorEntity, created'[AuthorEntity])]
                        /\ pc' = "save"
                        /\ after' = "author_mark"
                        /\ UNCHANGED <<exit, failed>>
                   [] o = "rejected" ->
                        /\ failed' = failed \cup {AuthorEntity}
                        /\ pc' = "ret"
                        /\ UNCHANGED <<exit, after, mem>>
                   [] o = "raised" ->
                        /\ End("exception", "entity")
                        /\ UNCHANGED <<after, mem, failed>>
    /\ UNCHANGED <<env, imgVars, pureVars, trace>>

\* create_wn_author: state.mark_step(step) after the author id was saved.
create_wn_author_mark ==
    /\ pc = "author_mark"
    /\ mark_step("author")
    /\ UNCHANGED <<disk, cache, created, reqs, run, exit, call, idx, reads, failed,
                   start, prev, faults, aborts, nruns>>
    /\ UNCHANGED <<env, imgVars, pureVars, trace>>

\* ------------------------------------------------------ step 3: media
\* post_media_ids: the featured media of the source posts.
post_media_ids == {WpPosts[k].featured_media : k \in 1..NumPosts} \ {0}

\* A bug to test the claims against: the pages are not filtered by WP_PAGE_MAP.
page_media_ids_all == {WpPages[k].featured_media : k \in 1..NumPages} \ {0}

\* page_media_ids: the featured media of the source pages that are in WP_PAGE_MAP.
page_media_ids ==
    {WpPages[k].featured_media : k \in {j \in 1..NumPages : WpPages[j].id \in WP_PAGE_MAP}} \ {0}

\* mime.startswith("image/") for the mime types of the source.
is_image(mime) == mime \in {"image/jpeg", "image/png", "image/gif"}

\* download_media: an existing file is returned as it is; otherwise the file
\* is fetched.  "error": the request failed before the file was opened;
\* "broken": the transfer failed after the file was opened (both are caught
\* and give None); "killed": the process died while writing the file.
DownloadOutcomes == {"ok", "error", "broken", "killed"}

download_media(m, d) ==
    IF cache[m] # "none"
    THEN /\ d = "ok"
         /\ UNCHANGED cache
    ELSE cache' = [cache EXCEPT ![m] = CASE d = "ok" -> "full"
                                         [] d = "error" -> "none"
                                         [] OTHER -> "partial"]

\* The path download_media returns (None when it failed).
local_file(m, d) == cache[m] # "none" \/ d = "ok"

migrate_media_enter ==
    /\ pc = "enter" /\ call = "media"
    /\ UNCHANGED <<disk, cache, created, reqs, run, call, after, mem, failed,
                   start, prev, faults, nruns>>
    /\ IF is_done(mem, "media")
       THEN /\ pc' = "ret"
            /\ UNCHANGED <<idx, reads, aborts, exit>>
       ELSE \E o \in {"ok", "raised"} :
              /\ Fetch("media", {"media", "posts", "pages"}, o)
              /\ idx' = 1
              /\ IF o = "ok" THEN pc' = "loop" /\ UNCHANGED exit
                             ELSE End("exception", "source")
    /\ UNCHANGED <<env, imgVars, pureVars, trace>>

\* One half of the loop body of migrate_media up to the upload: the WN half
\* (label "loop", media of posts) or the SI half (label "media_si", media of
\* pages).
media_download(label, wanted, map, upload, next) ==
    /\ pc = label /\ call = "media" /\ idx <= Len(WpMedia)
    /\ UNCHANGED <<disk, created, reqs, run, call, after, mem, reads, failed,
                   start, prev, nruns>>
    /\ LET media == WpMedia[idx]
           key == Str(media.id)
       IN IF label = "loop" /\ (media.source_url = "" \/ ~is_image(media.mime_type))
          THEN /\ idx' = idx + 1
               /\ UNCHANGED <<cache, pc, exit, faults, aborts>>
          ELSE IF media.id \in wanted /\ ~already_migrated(mem, map, key)
          THEN \E d \in DownloadOutcomes :
                 /\ d \in {"error", "broken"} => CanFail
                 /\ d = "killed" => CanAbort
                 /\ faults' = IF d \in {"error", "broken"} THEN faults + 1 ELSE faults
                 /\ aborts' = IF d = "killed" THEN aborts + 1 ELSE aborts
                 /\ download_media(media.id, d)
                 /\ IF d = "killed"
                    THEN End("killed", "none") /\ UNCHANGED idx
                    ELSE /\ UNCHANGED exit
                         /\ IF local_file(media.id, d) /\ ~run.dry
                            THEN pc' = upload /\ UNCHANGED idx
                            ELSE /\ pc' = next
                                 /\ idx' = IF next = "loop" THEN idx + 1 ELSE idx
          ELSE /\ pc' = next
               /\ idx' = IF next = "loop" THEN idx + 1 ELSE idx
               /\ UNCHANGED <<cache, exit, faults, aborts>>
    /\ UNCHANGED <<env, imgVars, pureVars, trace>>

\* upload_media_wn / upload_media_si and the recording of the returned id.
media_upload(label, kind, map, next) ==
    /\ pc = label /\ call = "media"
    /\ UNCHANGED <<disk, cache, run, call, reads, start, prev, nruns>>
    /\ LET key == Str(WpMedia[idx].id)
           e == <<kind, key>>
           nidx == IF next = "loop" THEN idx + 1 ELSE idx
       IN \E o \in Outcomes :
            /\ Send(e, o)
            /\ CASE o = "ok" ->
                      /\ mem' = [mem EXCEPT ![map] = Put(@, key, NewId(e, created'[e]))]
                      /\ pc' = "save"
                      /\ after' = next
                      /\ idx' = nidx
                      /\ UNCHANGED <<exit, failed>>
                 [] o = "rejected" ->
                      /\ failed' = failed \cup {e}
                      /\ pc' = next
                      /\ idx' = nidx
                      /\ UNCHANGED <<exit, after, mem>>
                 [] o = "raised" ->
                      /\ End("exception", "entity")
                      /\ UNCHANGED <<idx, after, mem, failed>>
    /\ UNCHANGED <<env, imgVars, pureVars, trace>>

migrate_media_wn_download ==
    media_download("loop", post_media_ids, "wp_media_wn", "upload_wn", "media_si")

migrate_media_wn_upload == media_upload("upload_wn", "media_wn", "wp_media_wn", "media_si")

migrate_media_si_download ==
    media_download("media_si", page_media_ids, "wp_media_si", "upload_si", "loop")

migrate_media_si_upload == media_upload("upload_si", "media_si", "wp_media_si", "loop")

migrate_media_end ==
    /\ pc = "loop" /\ call = "media" /\ idx > Len(WpMedia)
    /\ UNCHANGED <<disk, cache, created, reqs, run, exit, call, idx, reads, failed,
                   start, prev, faults, aborts, nruns>>
    /\ IF run.dry
       THEN pc' = "ret" /\ UNCHANGED <<mem, after>>
       ELSE mark_step("media")
    /\ UNCHANGED <<env, imgVars, pureVars, trace>>

\* ------------------------------------------------------ step 4: posts
migrate_posts_enter ==
    /\ pc = "enter" /\ call = "posts"
    /\ UNCHANGED <<disk, cache, created, reqs, run, call, after, mem, failed,
                   start, prev, faults, nruns>>
    /\ IF is_done(mem, "posts")
       THEN /\ pc' = "ret"
            /\ UNCHANGED <<idx, reads, aborts, exit>>
       ELSE \E o \in {"ok", "raised"} :
              /\ Fetch("posts", {"posts"}, o)
              /\ idx' = 1
              /\ IF o = "ok" THEN pc' = "loop" /\ UNCHANGED exit
                             ELSE End("exception", "source")
    /\ UNCHANGED <<env, imgVars, pureVars, trace>>

migrate_posts_iter ==
    /\ pc = "loop" /\ call = "posts" /\ idx <= Len(WpPosts)
    /\ UNCHANGED <<disk, cache, run, call, reads, start, prev, nruns>>
    /\ LET post == WpPosts[idx]
           key == Str(post.id)
           e == <<"post", key>>
       IN IF already_migrated(mem, "wp_posts", key) \/ run.dry
          THEN /\ idx' = idx + 1
               /\ UNCHANGED <<created, reqs, pc, exit, after, mem, failed, faults, aborts>>
          ELSE \E o \in Outcomes :
                 /\ Send(e, o)
                 /\ CASE o = "ok" ->
                           /\ mem' = [mem EXCEPT !.wp_posts = Put(@, key, NewId(e, created'[e]))]
                           /\ pc' = "save"
                           /\ after' = "wf_submit"
                           /\ UNCHANGED <<idx, exit, failed>>
                      [] o = "rejected" ->
                           /\ failed' = failed \cup {e}
                           /\ idx' = idx + 1
                           /\ UNCHANGED <<pc, exit, after, mem>>
                      [] o = "raised" ->
                           /\ End("exception", "entity")
                           /\ UNCHANGED <<idx, after, mem, failed>>
    /\ UNCHANGED <<env, imgVars, pureVars, trace>>

\* A bug to test the claims against: publish is called before review.
workflow_next_swapped(label) ==
    CASE label = "wf_submit" -> "wf_publish"
      [] label = "wf_publish" -> "wf_review"
      [] label = "wf_review" -> "loop"

\* The statement that follows a workflow call: submit, review, publish, then
\* the rest of the loop body.
workflow_next(label) ==
    CASE label = "wf_submit" -> "wf_review"
      [] label = "wf_review" -> "wf_publish"
      [] label = "wf_publish" -> "loop"

\* The three requests.patch calls of the editorial workflow; their status is
\* not looked at, an exception is not caught.
migrate_posts_workflow ==
    /\ pc \in {"wf_submit", "wf_review", "wf_publish"} /\ call = "posts"
    /\ UNCHANGED <<disk, cache, run, call, after, mem, reads, failed, start, prev, nruns>>
    /\ LET op == CASE pc = "wf_submit" -> "submit"
                   [] pc = "wf_review" -> "review"
                   [] pc = "wf_publish" -> "publish"
           e == <<op, Str(WpPosts[idx].id)>>
       IN \E o \in Outcomes :
            /\ Send(e, o)
            /\ IF o = "raised"
               THEN End("exception", "entity") /\ UNCHANGED idx
               ELSE /\ UNCHANGED exit
                    /\ pc' = workflow_next(pc)
                    /\ idx' = IF pc' = "loop" THEN idx + 1 ELSE idx
    /\ UNCHANGED <<env, imgVars, pureVars, trace>>

migrate_posts_end ==
    /\ pc = "loop" /\ call = "posts" /\ idx > Len(WpPosts)
    /\ UNCHANGED <<disk, cache, created, reqs, run, exit, call, idx, reads, failed,
                   start, prev, faults, aborts, nruns>>
    /\ IF run.dry
       THEN pc' = "ret" /\ UNCHANGED <<mem, after>>
       ELSE mark_step("posts")
    /\ UNCHANGED <<env, imgVars, pureVars, trace>>

\* ------------------------------------------------------ step 5: pages
migrate_pages_enter ==
    /\ pc = "enter" /\ call = "pages"
    /\ UNCHANGED <<disk, cache, created, reqs, run, call, after, mem, failed,
                   start, prev, faults, nruns>>
    /\ IF is_done(mem, "pages")
       THEN /\ pc' = "ret"
            /\ UNCHANGED <<idx, reads, aborts, exit>>
       ELSE \E o \in {"ok", "raised"} :
              /\ Fetch("pages", {"pages"}, o)
              /\ idx' = 1
              /\ IF o = "ok" THEN pc' = "loop" /\ UNCHANGED exit
                             ELSE End("exception", "source")
    /\ UNCHANGED <<env, imgVars, pureVars, trace>>

\* A bug to test the claims against: every source page counts as mapped.
has_mapping_any(wp_id) == TRUE

\* migrate_pages: mapping = WP_PAGE_MAP.get(wp_id) is a non-empty dict.
has_mapping(wp_id) == wp_id \in WP_PAGE_MAP

migrate_pages_iter ==
    /\ pc = "loop" /\ call = "pages" /\ idx <= Len(WpPages)
    /\ UNCHANGED <<disk, cache, run, call, reads, start, prev, nruns>>
    /\ LET page == WpPages[idx]
           key == Str(page.id)
           e == <<"page", key>>
       IN IF \/ already_migrated(mem, "wp_pages", key)
             \/ ~has_mapping(page.id)
             \/ run.dry
          THEN /\ idx' = idx + 1
               /\ UNCHANGED <<created, reqs, pc, exit, after, mem, failed, faults, aborts>>
          ELSE \E o \in Outcomes :
                 /\ Send(e, o)
                 /\ CASE o = "ok" ->
                           /\ mem' = [mem EXCEPT !.wp_pages = Put(@, key, NewId(e, created'[e]))]
                           /\ pc' = "save"
                           /\ after' = "estado"
                           /\ UNCHANGED <<idx, exit, failed>>
                      [] o = "rejected" ->
                           /\ failed' = failed \cup {e}
                           /\ idx' = idx + 1
                           /\ UNCHANGED <<pc, exit, after, mem>>
                      [] o = "raised" ->
                           /\ End("exception", "entity")
                           /\ UNCHANGED <<idx, after, mem, failed>>
    /\ UNCHANGED <<env, imgVars, pureVars, trace>>

\* The requests.patch that publishes a page, in migrate_pages and in
\* create_additional_si_pages.
page_estado(step, key) ==
    /\ pc = "estado" /\ call = step
    /\ UNCHANGED <<disk, cache, run, call, after, mem, reads, failed, start, prev, nruns>>
    /\ \E o \in Outcomes :
         /\ Send(<<"estado", key>>, o)
         /\ IF o = "raised"
            THEN End("exception", "entity") /\ UNCHANGED idx
            ELSE /\ UNCHANGED exit
                 /\ pc' = "loop"
                 /\ idx' = idx + 1
    /\ UNCHANGED <<env, imgVars, pureVars, trace>>

migrate_pages_estado == page_estado("pages", Str(WpPages[idx].id))

migrate_pages_end ==
    /\ pc = "loop" /\ call = "pages" /\ idx > Len(WpPages)
    /\ UNCHANGED <<disk, cache, created, reqs, run, exit, call, idx, reads, failed,
                   start, prev, faults, aborts, nruns>>
    /\ IF run.dry
       THEN pc' = "ret" /\ UNCHANGED <<mem, after>>
       ELSE mark_step("pages")
    /\ UNCHANGED <<env, imgVars, pureVars, trace>>

\* -------------------------------------------- step 6: additional pages
\* "slug in str(v)" for a value v of wp_pages.  The values are the ids the SI
\* service returned (UUIDs); the text of such an id contains no page slug.
slug_in_str(slug, v) == FALSE

\* any(v for k, v in state.data["wp_pages"].items() if slug in str(v))
possibly_exists(d, slug) ==
    \E k \in DOMAIN d.wp_pages : slug_in_str(slug, d.wp_pages[k]) /\ d.wp_pages[k] # None

create_additional_si_pages_enter ==
    /\ pc = "enter" /\ call = "additional_pages"
    /\ pc' = IF is_done(mem, "additional_pages") THEN "ret" ELSE "loop"
    /\ idx' = 1
    /\ UNCHANGED <<disk, cache, created, reqs, run, exit, call, after, mem, reads,
                   failed, start, prev, faults, aborts, nruns>>
    /\ UNCHANGED <<env, imgVars, pureVars, trace>>

create_additional_si_pages_iter ==
    /\ pc = "loop" /\ call = "additional_pages" /\ idx <= NumAdditionalPages
    /\ UNCHANGED <<disk, cache, run, call, reads, start, prev, nruns>>
    /\ LET slug == AdditionalSlugs[idx]
           key == "additional_" \o slug
           e == <<"page", key>>
       IN IF possibly_exists(mem, slug) \/ run.dry
          THEN /\ idx' = idx + 1
               /\ UNCHANGED <<created, reqs, pc, exit, after, mem, failed, faults, aborts>>
          ELSE \E o \in Outcomes :
                 /\ Send(e, o)
                 /\ CASE o = "ok" ->
                           /\ mem' = [mem EXCEPT !.wp_pages = Put(@, key, NewId(e, created'[e]))]
                           /\ pc' = "save"
                           /\ after' = "estado"
                           /\ UNCHANGED <<idx, exit, failed>>
                      [] o = "rejected" ->
                           /\ failed' = failed \cup {e}
                           /\ idx' = idx + 1
                           /\ UNCHANGED <<pc, exit, after, mem>>
                      [] o = "raised" ->
                           /\ End("exception", "entity")
                           /\ UNCHANGED <<idx, after, mem, failed>>
    /\ UNCHANGED <<env, imgVars, pureVars, trace>>

create_additional_si_pages_estado ==
    page_estado("additional_pages", "additional_" \o AdditionalSlugs[idx])

create_additional_si_pages_end ==
    /\ pc = "loop" /\ call = "additional_pages" /\ idx > NumAdditionalPages
    /\ UNCHANGED <<disk, cache, created, reqs, run, exit, call, idx, reads, failed,
                   start, prev, faults, aborts, nruns>>
    /\ IF run.dry
       THEN pc' = "ret" /\ UNCHANGED <<mem, after>>
       ELSE mark_step("additional_pages")
    /\ UNCHANGED <<env, imgVars, pureVars, trace>>

\* ------------------------------------------------------ step 7: menus
create_si_menus_enter ==
    /\ pc = "enter" /\ call = "menus"
    /\ pc' = IF is_done(mem, "menus") THEN "ret" ELSE "menu_header"
    /\ UNCHANGED <<disk, cache, created, reqs, run, exit, call, idx, after, mem,
                   reads, failed, start, prev, faults, aborts, nruns>>
    /\ UNCHANGED <<env, imgVars, pureVars, trace>>

\* The creation of the HEADER menu (label "menu_header") or of the FOOTER
\* menu (label "menu_footer").
create_si_menus_menu ==
    /\ pc \in {"menu_header", "menu_footer"} /\ call = "menus"
    /\ UNCHANGED <<disk, cache, run, call, reads, start, prev, nruns>>
    /\ idx' = 1
    /\ LET loc == IF pc = "menu_header" THEN "HEADER" ELSE "FOOTER"
           items == IF pc = "menu_header" THEN "header_items" ELSE "footer_items"
           e == <<"menu", loc>>
       IN IF loc \in DOMAIN mem.si_menus \/ run.dry
          THEN /\ pc' = items
               /\ UNCHANGED <<created, reqs, exit, after, mem, failed, faults, aborts>>
          ELSE \E o \in Outcomes :
                 /\ Send(e, o)
                 /\ CASE o = "ok" ->
                           /\ mem' = [mem EXCEPT !.si_menus = Put(@, loc, NewId(e, created'[e]))]
                           /\ pc' = "save"
                           /\ after' = items
                           /\ UNCHANGED <<exit, failed>>
                      [] o = "rejected" ->
                           /\ failed' = failed \cup {e}
                           /\ pc' = items
                           /\ UNCHANGED <<exit, after, mem>>
                      [] o = "raised" ->
                           /\ End("exception", "entity")
                           /\ UNCHANGED <<after, mem, failed>>
    /\ UNCHANGED <<env, imgVars, pureVars, trace>>

\* The loop over header_items (label "header_items") or footer_items (label
\* "footer_items"); it runs only when the menu id is known and not --dry-run.
create_si_menus_items ==
    /\ pc \in {"header_items", "footer_items"} /\ call = "menus"
    /\ UNCHANGED <<disk, cache, run, call, after, mem, reads, start, prev, nruns>>
    /\ LET header == pc = "header_items"
           loc == IF header THEN "HEADER" ELSE "FOOTER"
           n == IF header THEN NumHeaderItems ELSE NumFooterItems
           kind == IF header THEN "header_item" ELSE "footer_item"
           next == IF header THEN "menu_footer" ELSE "menus_end"
           e == <<kind, Str(idx)>>
       IN IF loc \notin DOMAIN mem.si_menus \/ mem.si_menus[loc] = None \/ run.dry \/ idx > n
          THEN /\ pc' = next
               /\ UNCHANGED <<created, reqs, exit, idx, failed, faults, aborts>>
          ELSE \E o \in Outcomes :
                 /\ Send(e, o)
                 /\ CASE o = "ok" ->
                           /\ idx' = idx + 1
                           /\ UNCHANGED <<pc, exit, failed>>
                      [] o = "rejected" ->
                           /\ failed' = failed \cup {e}
                           /\ idx' = idx + 1
                           /\ UNCHANGED <<pc, exit>>
                      [] o = "raised" ->
                           /\ End("exception", "entity")
                           /\ UNCHANGED <<idx, failed>>
    /\ UNCHANGED <<env, imgVars, pureVars, trace>>

create_si_menus_end ==
    /\ pc = "menus_end" /\ call = "menus"
    /\ UNCHANGED <<disk, cache, created, reqs, run, exit, call, idx, reads, failed,
                   start, prev, faults, aborts, nruns>>
    /\ IF run.dry
       THEN pc' = "ret" /\ UNCHANGED <<mem, after>>
       ELSE mark_step("menus")
    /\ UNCHANGED <<env, imgVars, pureVars, trace>>

\* ---------------------------------------------------- step 8: contacts
create_si_contacts_enter ==
    /\ pc = "enter" /\ call = "contacts"
    /\ pc' = IF is_done(mem, "contacts") THEN "ret" ELSE "loop"
    /\ idx' = 1
    /\ UNCHANGED <<disk, cache, created, reqs, run, exit, call, after, mem, reads,
                   failed, start, prev, faults, aborts, nruns>>
    /\ UNCHANGED <<env, imgVars, pureVars, trace>>

create_si_contacts_iter ==
    /\ pc = "loop" /\ call = "contacts" /\ idx <= NumContacts
    /\ UNCHANGED <<disk, cache, run, call, reads, start, prev, nruns>>
    /\ LET e == <<"contact", Str(idx)>>
       IN IF run.dry
          THEN /\ idx' = idx + 1
               /\ UNCHANGED <<created, reqs, pc, exit, after, mem, failed, faults, aborts>>
          ELSE \E o \in Outcomes :
                 /\ Send(e, o)
                 /\ CASE o = "ok" ->
                           /\ mem' = [mem EXCEPT !.si_contacts = Append(@, NewId(e, created'[e]))]
                           /\ pc' = "save"
                           /\ after' = "loop"
                           /\ idx' = idx + 1
                           /\ UNCHANGED <<exit, failed>>
                      [] o = "rejected" ->
                           /\ failed' = failed \cup {e}
                           /\ idx' = idx + 1
                           /\ UNCHANGED <<pc, exit, after, mem>>
                      [] o = "raised" ->
                           /\ End("exception", "entity")
                           /\ UNCHANGED <<idx, after, mem, failed>>
    /\ UNCHANGED <<env, imgVars, pureVars, trace>>

create_si_contacts_end ==
    /\ pc = "loop" /\ call = "contacts" /\ idx > NumContacts
    /\ UNCHANGED <<disk, cache, created, reqs, run, exit, call, idx, reads, failed,
                   start, prev, faults, aborts, nruns>>
    /\ IF run.dry
       THEN pc' = "ret" /\ UNCHANGED <<mem, after>>
       ELSE mark_step("contacts")
    /\ UNCHANGED <<env, imgVars, pureVars, trace>>

Modes == {"full", "step", "reset", "status"}

Next ==
    \/ \E mode \in Modes, dry \in BOOLEAN, step \in STEPS \cup {""} :
          /\ (mode = "step") = (step # "")
          /\ mode \in {"reset", "status"} => ~dry
          /\ main_load(mode, dry, step)
    \/ main_auth
    \/ main_dispatch
    \/ main_return
    \/ save
    \/ kill
    \/ kill_in_save
    \/ migrate_categories_enter
    \/ migrate_categories_iter
    \/ migrate_categories_end
    \/ create_wn_author
    \/ create_wn_author_mark
    \/ migrate_media_enter
    \/ migrate_media_wn_download
    \/ migrate_media_wn_upload
    \/ migrate_media_si_download
    \/ migrate_media_si_upload
    \/ migrate_media_end
    \/ migrate_posts_enter
    \/ migrate_posts_iter
    \/ migrate_posts_workflow
    \/ migrate_posts_end
    \/ migrate_pages_enter
    \/ migrate_pages_iter
    \/ migrate_pages_estado
    \/ migrate_pages_end
    \/ create_additional_si_pages_enter
    \/ create_additional_si_pages_iter
    \/ create_additional_si_pages_estado
    \/ create_additional_si_pages_end
    \/ create_si_menus_enter
    \/ create_si_menus_menu
    \/ create_si_menus_items
    \/ create_si_menus_end
    \/ create_si_contacts_enter
    \/ create_si_contacts_iter
    \/ create_si_contacts_end

Spec == Init /\ [][Next]_vars

\* =================================================== wp_import_images.py
ImgEnd(how, cause) ==
    /\ img_pc' = "idle"
    /\ img_exit' = [how |-> how, cause |-> cause]

\* main(): parse the command line, load_state, get_db_connection,
\* fetch_articles_without_images.  json.loads raises on a truncated state
\* file, psycopg2.connect raises when the database is unreachable.
img_main(dry, limit) ==
    /\ img_pc = "idle"
    /\ nruns < MaxRuns
    /\ nruns' = nruns + 1
    /\ img_run' = [dry |-> dry, limit |-> limit]
    /\ counters' = NoCounters
    /\ img_idx' = 1
    /\ img_after' = ""
    /\ media_id' = None
    /\ img_mem' = load_state(img_disk)
    /\ img_start' = load_state(img_disk)
    /\ UNCHANGED <<img_disk, img_cache, minio, db, uuids, faults>>
    /\ \E o \in {"ok", "raised"} :
         /\ o = "raised" => CanAbort /\ img_disk.st # "corrupt"
         /\ aborts' = IF o = "raised" THEN aborts + 1 ELSE aborts
         /\ IF img_disk.st = "corrupt"
            THEN ImgEnd("exception", "load") /\ articles' = <<>>
            ELSE IF o = "raised"
            THEN ImgEnd("exception", "db") /\ articles' = <<>>
            ELSE /\ articles' = fetch_articles_without_images(db, limit)
                 /\ img_pc' = "loop"
                 /\ img_exit' = Running
    /\ UNCHANGED <<env, migVars, pureVars>>

\* state["failed"].append(slug); failed += 1; continue
fail_article(slug) ==
    /\ img_mem' = [img_mem EXCEPT !.failed = Append(@, slug)]
    /\ counters' = [counters EXCEPT !.failed = @ + 1]
    /\ img_idx' = img_idx + 1
    /\ img_pc' = "loop"

\* What happens to one article up to the upload: the WordPress API gives no
\* image or fails, the download fails or is cut by a kill, the file cannot be
\* decoded, or all of it works.
IterOutcomes == {"ok", "no_image", "api_error", "download_error", "download_killed",
                 "resize_error"}

\* download_image: a cached file with size > 0 is returned as it is; a failed
\* download is unlinked; a kill leaves the part written so far.
download_image(file, r) ==
    IF file # "none" THEN file
    ELSE CASE r = "download_error" -> "none"
           [] r = "download_killed" -> "partial"
           [] OTHER -> "full"

\* resize_image gives a buffer: the file is a whole image that PIL decodes.
resize_image(file, r) == file = "full" /\ r # "resize_error"

\* The loop body of main() up to the upload: skip an imported slug, fetch the
\* featured image from WordPress, stop here under --dry-run, download, resize.
img_iter ==
    /\ img_pc = "loop" /\ img_idx <= Len(articles)
    /\ UNCHANGED <<img_disk, minio, db, img_run, articles, img_after, img_start, nruns>>
    /\ LET slug == articles[img_idx]
       IN IF slug \in DOMAIN img_mem.imported
          THEN /\ counters' = [counters EXCEPT !.skipped = @ + 1]
               /\ img_idx' = img_idx + 1
               /\ UNCHANGED <<img_cache, img_pc, img_exit, img_mem, media_id, uuids,
                              faults, aborts>>
          ELSE \E r \in IterOutcomes :
                 /\ (r = "no_image") = ~HasFeaturedImage(slug)
                 /\ r \in {"api_error", "download_error", "resize_error"} => CanFail
                 /\ r = "download_killed" => CanAbort
                 /\ r \in {"download_error", "download_killed"} => img_cache[slug] = "none"
                 /\ r = "resize_error" => img_cache[slug] # "partial"
                 /\ img_run.dry => r \in {"ok", "no_image", "api_error"}
                 /\ faults' = IF r \in {"api_error", "download_error", "resize_error"}
                              THEN faults + 1 ELSE faults
                 /\ aborts' = IF r = "download_killed" THEN aborts + 1 ELSE aborts
                 /\ CASE r \in {"no_image", "api_error"} ->
                           /\ img_mem' = [img_mem EXCEPT !.skipped = Append(@, slug)]
                           /\ counters' = [counters EXCEPT !.skipped = @ + 1]
                           /\ img_idx' = img_idx + 1
                           /\ UNCHANGED <<img_cache, img_pc, img_exit, media_id, uuids>>
                      [] r \notin {"no_image", "api_error"} /\ img_run.dry ->
                           /\ counters' = [counters EXCEPT !.imported = @ + 1]
                           /\ img_idx' = img_idx + 1
                           /\ UNCHANGED <<img_cache, img_pc, img_exit, img_mem, media_id, uuids>>
                      [] OTHER ->
                           /\ img_cache' = [img_cache EXCEPT ![slug] = download_image(@, r)]
                           /\ IF r = "download_killed"
                              THEN /\ ImgEnd("killed", "none")
                                   /\ UNCHANGED <<img_mem, counters, img_idx, media_id, uuids>>
                              ELSE IF resize_image(img_cache'[slug], r)
                              THEN /\ media_id' = <<"media", uuids + 1>>
                                   /\ uuids' = uuids + 1
                                   /\ img_pc' = "upload"
                                   /\ UNCHANGED <<img_exit, img_mem, counters, img_idx>>
                              ELSE /\ fail_article(slug)
                                   /\ UNCHANGED <<img_exit, media_id, uuids>>
    /\ UNCHANGED <<env, migVars, pureVars>>

\* A bug to test the claims against: the exception of upload_to_minio is
\* swallowed and the record is inserted all the same.
img_upload_unchecked ==
    /\ img_pc = "upload"
    /\ UNCHANGED <<img_disk, img_cache, db, img_run, img_exit, articles, img_after,
                   media_id, uuids, img_start, aborts, nruns>>
    /\ \E o \in {"ok", "raised"} :
         /\ o = "raised" => CanFail
         /\ faults' = IF o = "raised" THEN faults + 1 ELSE faults
         /\ minio' = IF o = "ok" THEN minio \cup {media_id} ELSE minio
         /\ img_pc' = "db"
         /\ UNCHANGED <<img_mem, counters, img_idx>>
    /\ UNCHANGED <<env, migVars, pureVars>>

\* upload_to_minio; an exception is caught and the article counted as failed.
img_upload ==
    /\ img_pc = "upload"
    /\ UNCHANGED <<img_disk, img_cache, db, img_run, img_exit, articles, img_after,
                   media_id, uuids, img_start, aborts, nruns>>
    /\ \E o \in {"ok", "raised"} :
         /\ o = "raised" => CanFail
         /\ faults' = IF o = "raised" THEN faults + 1 ELSE faults
         /\ IF o = "ok"
            THEN /\ minio' = minio \cup {media_id}
                 /\ img_pc' = "db"
                 /\ UNCHANGED <<img_mem, counters, img_idx>>
            ELSE /\ fail_article(articles[img_idx])
                 /\ UNCHANGED minio
    /\ UNCHANGED <<env, migVars, pureVars>>

\* A bug to test the claims against: the connection commits every statement,
\* so a failure of the UPDATE leaves the inserted record behind.
img_db_autocommit ==
    /\ img_pc = "db"
    /\ UNCHANGED <<img_disk, img_cache, minio, img_run, img_exit, articles, img_after,
                   media_id, uuids, img_start, aborts, nruns>>
    /\ \E o \in {"ok", "raised"} :
         /\ o = "raised" => CanFail
         /\ faults' = IF o = "raised" THEN faults + 1 ELSE faults
         /\ IF o = "ok"
            THEN /\ db' = [featured |-> [db.featured EXCEPT ![articles[img_idx]] = media_id],
                           media_files |-> db.media_files \cup {media_id}]
                 /\ img_pc' = "record"
                 /\ UNCHANGED <<img_mem, counters, img_idx>>
            ELSE /\ fail_article(articles[img_idx])
                 /\ db' = [db EXCEPT !.media_files = @ \cup {media_id}]
    /\ UNCHANGED <<env, migVars, pureVars>>

\* A bug to test the claims against: a failed transaction is rolled back and
\* the slug recorded as imported all the same.
img_db_unchecked ==
    /\ img_pc = "db"
    /\ UNCHANGED <<img_disk, img_cache, minio, img_run, img_exit, articles, img_after,
                   media_id, uuids, img_start, aborts, nruns>>
    /\ \E o \in {"ok", "raised"} :
         /\ o = "raised" => CanFail
         /\ faults' = IF o = "raised" THEN faults + 1 ELSE faults
         /\ db' = IF o = "ok"
                  THEN [featured |-> [db.featured EXCEPT ![articles[img_idx]] = media_id],
                        media_files |-> db.media_files \cup {media_id}]
                  ELSE db
         /\ img_pc' = "record"
         /\ UNCHANGED <<img_mem, counters, img_idx>>
    /\ UNCHANGED <<env, migVars, pureVars>>

\* insert_media_record, link_article_image and conn.commit() in one
\* transaction; an exception is caught and the transaction rolled back.
img_db ==
    /\ img_pc = "db"
    /\ UNCHANGED <<img_disk, img_cache, minio, img_run, img_exit, articles, img_after,
                   media_id, uuids, img_start, aborts, nruns>>
    /\ \E o \in {"ok", "raised"} :
         /\ o = "raised" => CanFail
         /\ faults' = IF o = "raised" THEN faults + 1 ELSE faults
         /\ IF o = "ok"
            THEN /\ db' = [featured |-> [db.featured EXCEPT ![articles[img_idx]] = media_id],
                           media_files |-> db.media_files \cup {media_id}]
                 /\ img_pc' = "record"
                 /\ UNCHANGED <<img_mem, counters, img_idx>>
            ELSE /\ fail_article(articles[img_idx])
                 /\ UNCHANGED db
    /\ UNCHANGED <<env, migVars, pureVars>>

\* state["imported"][slug] = media_id; imported += 1; save_state every
\* SavePeriod imports.
img_record ==
    /\ img_pc = "record"
    /\ img_mem' = [img_mem EXCEPT !.imported = Put(@, articles[img_idx], media_id)]
    /\ counters' = [counters EXCEPT !.imported = @ + 1]
    /\ img_idx' = img_idx + 1
    /\ IF counters'.imported % SavePeriod = 0
       THEN img_pc' = "save" /\ img_after' = "loop"
       ELSE img_pc' = "loop" /\ UNCHANGED img_after
    /\ UNCHANGED <<img_disk, img_cache, minio, db, img_run, img_exit, articles,
                   media_id, uuids, img_start, faults, aborts, nruns>>
    /\ UNCHANGED <<env, migVars, pureVars>>

\* main(): the loop is over, save_state(state) whatever the mode.
img_end ==
    /\ img_pc = "loop" /\ img_idx > Len(articles)
    /\ img_pc' = "save"
    /\ img_after' = "done"
    /\ UNCHANGED <<img_disk, img_cache, minio, db, img_run, img_exit, articles, img_idx,
                   img_mem, counters, media_id, uuids, img_start, faults, aborts, nruns>>
    /\ UNCHANGED <<env, migVars, pureVars>>

\* save_state: the whole document is written; after the last one main() returns.
save_state ==
    /\ img_pc = "save"
    /\ img_disk' = ValidImgFile(img_mem)
    /\ IF img_after = "done"
       THEN ImgEnd("ok", "none")
       ELSE img_pc' = img_after /\ UNCHANGED img_exit
    /\ UNCHANGED <<img_cache, minio, db, img_run, articles, img_idx, img_after, img_mem,
                   counters, media_id, uuids, img_start, faults, aborts, nruns>>
    /\ UNCHANGED <<env, migVars, pureVars>>

\* The importer is killed at any label; an open transaction is lost.
img_kill ==
    /\ img_pc # "idle"
    /\ CanAbort
    /\ aborts' = aborts + 1
    /\ ImgEnd("killed", "none")
    /\ UNCHANGED <<img_disk, img_cache, minio, db, img_run, articles, img_idx, img_after,
                   img_mem, counters, media_id, uuids, img_start, faults, nruns>>
    /\ UNCHANGED <<env, migVars, pureVars>>

\* The importer is killed inside save_state: write_text has truncated the file.
img_kill_in_save ==
    /\ img_pc = "save"
    /\ CanAbort
    /\ aborts' = aborts + 1
    /\ img_disk' = CorruptImgFile
    /\ ImgEnd("killed", "none")
    /\ UNCHANGED <<img_cache, minio, db, img_run, articles, img_idx, img_after,
                   img_mem, counters, media_id, uuids, img_start, faults, nruns>>
    /\ UNCHANGED <<env, migVars, pureVars>>

\* --limit values explored: 0 (all the articles) and 1.
Limits == {0, 1}

NextImg ==
    \/ \E dry \in BOOLEAN, limit \in Limits : img_main(dry, limit)
    \/ img_iter
    \/ img_upload
    \/ img_db
    \/ img_record
    \/ img_end
    \/ save_state
    \/ img_kill
    \/ img_kill_in_save

SpecImg == Init /\ [][NextImg]_vars


\* ------------------------------------- migrate_posts: the article payload
\* An environment in which nothing fails.
QuietEnv == [fail |-> FALSE, abort |-> FALSE, full_only |-> FALSE]

\* ------------------------------------------------------ the text helpers
\* Text is a sequence of characters; Tag stands for one element without
\* text of its own (<br/>), Dots for the marker "...".
Tag == "<br/>"
Dots == <<".", ".", ".">>

\* The tokens of the markup wp_clean_html looks at.
Html == [div |-> "<div>", et_pb |-> "<div class='et_pb_row'>", end |-> "</div>",
         img |-> "<img/>"]

\* str.strip() over the whitespace of the model, space and newline.
strip(s) ==
    LET ink == {i \in 1..Len(s) : s[i] \notin {" ", "\n"}}
    IN IF ink = {} THEN <<>>
       ELSE SubSeq(s, CHOOSE i \in ink : \A j \in ink : i <= j,
                      CHOOSE i \in ink : \A j \in ink : i >= j)

\* BeautifulSoup(content, "html.parser").get_text(separator=" ", strip=True):
\* the text nodes between the tags, each stripped, the empty ones dropped,
\* joined by one space.
get_text(content) ==
    LET RECURSIVE nodes(_)
        nodes(c) ==
            LET tags == {i \in 1..Len(c) : c[i] \in {Tag, Html.div, Html.et_pb, Html.end, Html.img}}
            IN IF tags = {} THEN <<strip(c)>>
               ELSE LET i == CHOOSE k \in tags : \A j \in tags : k <= j
                    IN <<strip(SubSeq(c, 1, i - 1))>> \o nodes(SubSeq(c, i + 1, Len(c)))
        RECURSIVE join(_)
        join(ns) ==
            IF ns = <<>> THEN <<>>
            ELSE IF Len(ns) = 1 THEN ns[1]
            ELSE ns[1] \o <<" ">> \o join(Tail(ns))
    IN join(SelectSeq(nodes(content), LAMBDA n : n # <<>>))

wp_extract_excerpt(content, max_len) ==
    IF content = <<>> THEN <<>>
    ELSE LET text == get_text(content)
             head == SubSeq(text, 1, max_len)
             spaces == {i \in 1..Len(head) : head[i] = " "}
             \* head.rsplit(" ", 1)[0]
             kept == IF spaces = {} THEN head
                     ELSE SubSeq(head, 1, (CHOOSE i \in spaces : \A j \in spaces : i >= j) - 1)
         IN IF Len(text) > max_len THEN kept \o Dots ELSE text

RECURSIVE Texts(_, _)
Texts(chars, n) ==
    IF n = 0 THEN {<<>>}
    ELSE LET shorter == Texts(chars, n - 1)
         IN shorter \cup {Append(t, c) : t \in {u \in shorter : Len(u) = n - 1}, c \in chars}

ExcerptInputs == {<<t, max_len>> : t \in Texts({"a", " ", Tag}, MaxText), max_len \in {2, 3}}

\* str(BeautifulSoup(html, "html.parser")) before any edit: html.parser drops
\* an end tag that closes nothing and closes at the end what is still open.
soup(html) ==
    LET RECURSIVE read(_, _)
        read(s, open) ==
            IF s = <<>> THEN [j \in 1..open |-> Html.end]
            ELSE IF s[1] \in {Html.div, Html.et_pb}
                 THEN <<s[1]>> \o read(Tail(s), open + 1)
            ELSE IF s[1] = Html.end
                 THEN IF open = 0 THEN read(Tail(s), 0)
                      ELSE <<s[1]>> \o read(Tail(s), open - 1)
            ELSE <<s[1]>> \o read(Tail(s), open)
    IN read(html, 0)

\* The default version is wp_clean_html; `stripped` tells whether the result
\* is stripped at the end.
clean_html(html, stripped) ==
    LET Without(s, drop) ==
            LET keep == (1..Len(s)) \ drop
            IN [k \in 1..Cardinality(keep) |->
                  s[CHOOSE i \in keep : Cardinality({j \in keep : j < i}) = k - 1]]
        Count(s, a, b, toks) == Cardinality({k \in a..b : s[k] \in toks})
        \* the end tag of the div opened at i
        Match(s, i) ==
            CHOOSE j \in (i + 1)..Len(s) :
                /\ s[j] = Html.end
                /\ Count(s, i + 1, j - 1, {Html.div, Html.et_pb}) = Count(s, i + 1, j - 1, {Html.end})
                /\ \A k \in (i + 1)..(j - 1) :
                      s[k] = Html.end =>
                          Count(s, i + 1, k - 1, {Html.div, Html.et_pb}) # Count(s, i + 1, k - 1, {Html.end})
        parsed == soup(html)
        builder == {i \in 1..Len(parsed) : parsed[i] = Html.et_pb}
        unwrapped == Without(parsed, builder \cup {Match(parsed, i) : i \in builder})
        \* not div.get_text(strip=True) and not div.find("img")
        Empty(i) == \A k \in (i + 1)..(Match(unwrapped, i) - 1) :
                        unwrapped[k] \in {" ", "\n", Html.div, Html.end}
        empties == {i \in 1..Len(unwrapped) : unwrapped[i] = Html.div /\ Empty(i)}
        text == Without(unwrapped,
                        UNION {i..Match(unwrapped, i) : i \in empties})
        \* re.sub(r"\n{3,}", "\n\n", text)
        extra == {i \in 3..Len(text) : text[i] = "\n" /\ text[i - 1] = "\n" /\ text[i - 2] = "\n"}
        collapsed == Without(text, extra)
    IN IF html = <<>> THEN <<>>
       ELSE IF stripped THEN strip(collapsed) ELSE collapsed

wp_clean_html_unstripped(html) == clean_html(html, FALSE)

wp_clean_html(html) == clean_html(html, TRUE)

\* A bug to test the claims against: the loop has no break, the last mapped
\* category wins.
resolve_category_last(wp_cat_ids, wp_categories) ==
    LET at == {k \in 1..Len(wp_cat_ids) : Str(wp_cat_ids[k]) \in DOMAIN wp_categories}
    IN IF at = {} THEN None
       ELSE wp_categories[Str(wp_cat_ids[CHOOSE k \in at : \A j \in at : j <= k])]

\* "Map first WP category to WN category": the loop over wp_cat_ids that
\* stops at the first id whose text is a key of wp_categories.
RECURSIVE resolve_category(_, _)
resolve_category(wp_cat_ids, wp_categories) ==
    IF wp_cat_ids = <<>>
    THEN None
    ELSE IF Str(Head(wp_cat_ids)) \in DOMAIN wp_categories
         THEN wp_categories[Str(Head(wp_cat_ids))]
         ELSE resolve_category(Tail(wp_cat_ids), wp_categories)

\* s[:n] of Python.
slice_whole(s, n) == s

slice_to(s, n) == SubSeq(s, 1, IF Len(s) > n THEN n ELSE Len(s))

\* title, content and excerpt of a post, as the loop body of migrate_posts
\* computes them before anything else.
post_text(post) ==
    LET content == wp_clean_html(post.content)
        excerpt_html == post.excerpt
    IN [title |-> SelectSeq(post.title, LAMBDA c : c # Tag),
        content |-> content,
        excerpt |-> wp_extract_excerpt(IF excerpt_html # <<>> THEN excerpt_html ELSE content, 400)]

\* The payload of POST /api/v1/articles.
article_payload(post, text, data) ==
    LET title == text.title
        content == text.content
        excerpt == text.excerpt
        wn_category_id == resolve_category(post.categories, data.wp_categories)
        featured_media_wp == post.featured_media
        featured_image_id ==
            IF featured_media_wp # 0 /\ Str(featured_media_wp) \in DOMAIN data.wp_media_wn
            THEN data.wp_media_wn[Str(featured_media_wp)]
            ELSE None
        author_id == data.wn_author_id
        slug == IF Len(post.slug) > 290 THEN slice_to(post.slug, 290) ELSE post.slug
        base == [slug |-> slug,
                 tituloPt |-> slice_to(title, 300),
                 conteudoPt |-> content,
                 excertoPt |-> slice_to(excerpt, 500),
                 metaTituloPt |-> slice_to(title, 160),
                 metaDescricaoPt |-> slice_to(excerpt, 320),
                 featured |-> FALSE]
        with_category == IF wn_category_id # None
                         THEN Put(base, "categoryId", wn_category_id) ELSE base
        with_author == IF author_id # None
                       THEN Put(with_category, "authorId", author_id) ELSE with_category
    IN IF featured_image_id # None
       THEN Put(with_author, "featuredImageId", featured_image_id) ELSE with_author

\* The texts of a post: n characters with a space at every gap-th place.
Pattern(n, gap) ==
    [i \in 1..n |-> IF gap > 0 /\ i % gap = 0 THEN " "
                    ELSE IF i % 3 = 0 THEN "a" ELSE IF i % 3 = 1 THEN "b" ELSE "c"]

\* Slugs, titles and excerpts around the lengths the payload cuts at, with
\* and without markup, with and without an excerpt of the post's own.
TextInputs ==
    {[slug |-> Pattern(6, 0), title |-> Pattern(5, 0), excerpt |-> <<>>,
      content |-> <<Html.et_pb>> \o Pattern(5, 3) \o <<Html.end, "\n">>],
     [slug |-> Pattern(291, 0), title |-> Pattern(301, 9), excerpt |-> Pattern(450, 8),
      content |-> Pattern(6, 4)],
     [slug |-> Pattern(290, 0), title |-> <<Tag>> \o Pattern(161, 9), excerpt |-> Pattern(330, 11),
      content |-> <<Html.div, Html.end>> \o Pattern(4, 0)],
     [slug |-> Pattern(300, 0), title |-> Pattern(160, 0), excerpt |-> Pattern(401, 0),
      content |-> <<>>]}

\* The posts the payload is built from: a post lists up to MaxCatIds source
\* category ids, each the id of a source category or an id the source does
\* not have, and has a featured image or none; the long texts come with the
\* post that has neither.
PostInputs ==
    LET pool == {WpCats[k].id : k \in 1..NumCats} \cup {99}
        lists == UNION {[1..n -> pool] : n \in 0..MaxCatIds}
        short == CHOOSE t \in TextInputs : Len(t.slug) < 10
    IN {[id |-> WpPosts[1].id, slug |-> t.slug, title |-> t.title, content |-> t.content,
         excerpt |-> t.excerpt, categories |-> c, featured_media |-> fm] :
           t \in {short}, c \in lists, fm \in {0, WpMedia[1].id}}
       \cup {[id |-> WpPosts[1].id, slug |-> t.slug, title |-> t.title, content |-> t.content,
               excerpt |-> t.excerpt, categories |-> <<>>, featured_media |-> 0] :
                 t \in TextInputs}

\* The ledgers the payload is built from: any set of the categories that
\* migrate_categories creates is mapped, the author is or not, and the image
\* is or not in each of the two media maps.
LedgerInputs ==
    LET keys == {Str(WpCats[k].id) :
                    k \in {j \in 1..NumCats : WpCats[j].slug # "uncategorized"}}
        maps == {[key \in K |-> NewId(<<"category", key>>, 1)] : K \in SUBSET keys}
    IN {[EmptyLedger EXCEPT !.wp_categories = m, !.wn_author_id = a,
                            !.wp_media_wn = w, !.wp_media_si = si] :
           m \in maps,
           a \in {None, NewId(AuthorEntity, 1)},
           w \in {EmptyMap,
                  [key \in {Str(WpMedia[1].id)} |-> NewId(<<"media_wn", key>>, 1)]},
           si \in {EmptyMap,
                   [key \in {Str(WpMedia[1].id)} |-> NewId(<<"media_si", key>>, 1)]}}

\* WP_PAGE_MAP.get(wp_id): the slug, type and sort order of a mapped page.
page_mapping(wp_id) ==
    CASE wp_id = 3162 -> [slug |-> "presidente", tipo |-> "INSTITUTIONAL", sortOrder |-> 1]
      [] wp_id = 3191 -> [slug |-> "poderes-executivo", tipo |-> "INSTITUTIONAL", sortOrder |-> 2]
      [] wp_id = 3183 -> [slug |-> "poderes-legislativo", tipo |-> "INSTITUTIONAL", sortOrder |-> 3]
      [] wp_id = 3178 -> [slug |-> "poderes-judicial", tipo |-> "INSTITUTIONAL", sortOrder |-> 4]
      [] wp_id = 3200 -> [slug |-> "mirex", tipo |-> "INSTITUTIONAL", sortOrder |-> 5]
      [] wp_id = 1274 -> [slug |-> "sobre-angola", tipo |-> "INSTITUTIONAL", sortOrder |-> 0]
      [] wp_id = 1282 -> [slug |-> "demografia", tipo |-> "INSTITUTIONAL", sortOrder |-> 6]
      [] wp_id = 1277 -> [slug |-> "geografia", tipo |-> "INSTITUTIONAL", sortOrder |-> 7]
      [] wp_id = 1271 -> [slug |-> "historia", tipo |-> "INSTITUTIONAL", sortOrder |-> 8]
      [] wp_id = 1236 -> [slug |-> "simbolos", tipo |-> "INSTITUTIONAL", sortOrder |-> 9]
      [] wp_id = 1286 -> [slug |-> "economia", tipo |-> "INSTITUTIONAL", sortOrder |-> 10]
      [] wp_id = 71 -> [slug |-> "embaixada", tipo |-> "INSTITUTIONAL", sortOrder |-> 0]
      [] wp_id = 1793 -> [slug |-> "visto-consular", tipo |-> "SERVICE", sortOrder |-> 1]
      [] wp_id = 1796 -> [slug |-> "visto-territorial", tipo |-> "SERVICE", sortOrder |-> 2]
      [] wp_id = 5501 -> [slug |-> "bilhete-identidade", tipo |-> "SERVICE", sortOrder |-> 3]
      [] wp_id = 1582 -> [slug |-> "impressum", tipo |-> "INSTITUTIONAL", sortOrder |-> 20]
      [] wp_id = 1580 -> [slug |-> "politica-privacidade", tipo |-> "INSTITUTIONAL", sortOrder |-> 21]
      [] wp_id = 1578 -> [slug |-> "politica-cookies", tipo |-> "INSTITUTIONAL", sortOrder |-> 22]
      [] OTHER -> None

\* title, content and excerpt of a page, as the loop body of migrate_pages
\* computes them: the excerpt always comes from the cleaned content.
page_text(page) ==
    LET content == wp_clean_html(page.content)
    IN [title |-> SelectSeq(page.title, LAMBDA c : c # Tag),
        content |-> content,
        excerpt |-> wp_extract_excerpt(content, 400)]

\* A bug to test the claims against: the page looks its image up in the map
\* of the images uploaded to WN.
page_payload_wn(page, text, data) ==
    LET mapping == page_mapping(page.id)
        base == [slug |-> mapping.slug, tipo |-> mapping.tipo, sortOrder |-> mapping.sortOrder,
                 translations |-> <<[idioma |-> "PT",
                                     titulo |-> slice_to(text.title, 300),
                                     conteudo |-> text.content,
                                     excerto |-> slice_to(text.excerpt, 500),
                                     metaTitulo |-> slice_to(text.title, 160),
                                     metaDescricao |-> slice_to(text.excerpt, 320)]>>]
    IN IF page.featured_media # 0 /\ Str(page.featured_media) \in DOMAIN data.wp_media_wn
       THEN Put(base, "featuredImageId", data.wp_media_wn[Str(page.featured_media)])
       ELSE base

\* The payload of POST /api/v1/pages.
page_payload(page, text, data) ==
    LET mapping == page_mapping(page.id)
        title == text.title
        content == text.content
        excerpt == text.excerpt
        featured_media_wp == page.featured_media
        featured_image_id ==
            IF featured_media_wp # 0 /\ Str(featured_media_wp) \in DOMAIN data.wp_media_si
            THEN data.wp_media_si[Str(featured_media_wp)]
            ELSE None
        base == [slug |-> mapping.slug,
                 tipo |-> mapping.tipo,
                 sortOrder |-> mapping.sortOrder,
                 translations |-> <<[idioma |-> "PT",
                                     titulo |-> slice_to(title, 300),
                                     conteudo |-> content,
                                     excerto |-> slice_to(excerpt, 500),
                                     metaTitulo |-> slice_to(title, 160),
                                     metaDescricao |-> slice_to(excerpt, 320)]>>]
    IN IF featured_image_id # None
       THEN Put(base, "featuredImageId", featured_image_id) ELSE base

\* The pages the payload is built from: mapped pages with a short text, with
\* no featured image, with the image the ledgers know or with another one.
PageInputs ==
    LET short == CHOOSE t \in TextInputs : Len(t.slug) < 10
    IN {[id |-> id, title |-> short.title, content |-> short.content, featured_media |-> fm] :
           id \in {WpPages[1].id, 1793},
           fm \in {0} \cup {WpMedia[k].id : k \in 1..NumMedia}}

InitPayload ==
    /\ InitTools
    /\ env = QuietEnv
    /\ fetch = NoFetch
    /\ fn = NoFn
    /\ tf \in {[pc |-> "loop", post |-> post, data |-> data, dry |-> dry,
                text |-> None, payload |-> EmptyMap, outcome |-> "none"] :
                  post \in PostInputs, data \in LedgerInputs, dry \in BOOLEAN}
             \cup {[pc |-> "page_loop", post |-> page, data |-> data, dry |-> dry,
                     text |-> None, payload |-> EmptyMap, outcome |-> "none"] :
                       page \in PageInputs, data \in LedgerInputs, dry \in BOOLEAN}

\* The loop body of migrate_posts for a post that is not in wp_posts: the
\* texts are extracted.
read_post ==
    /\ tf.pc = "loop"
    /\ tf' = [tf EXCEPT !.text = post_text(tf.post), !.pc = "payload"]
    /\ UNCHANGED <<migVars, imgVars, fetch, fn, env, faults, aborts, nruns>>

\* The loop body from the category lookup to the dry-run test.
build_payload ==
    /\ tf.pc = "payload"
    /\ tf' = [tf EXCEPT !.payload = article_payload(tf.post, tf.text, tf.data),
                        !.pc = IF tf.dry THEN "continue" ELSE "post"]
    /\ UNCHANGED <<migVars, imgVars, fetch, fn, env, faults, aborts, nruns>>

\* requests.post of the payload: the article is created or the call refused.
post_article ==
    /\ tf.pc = "post"
    /\ \E o \in {"ok", "rejected"} : tf' = [tf EXCEPT !.pc = "continue", !.outcome = o]
    /\ UNCHANGED <<migVars, imgVars, fetch, fn, env, faults, aborts, nruns>>

\* The loop body of migrate_pages for a mapped page that is not in wp_pages:
\* the texts are extracted.
read_page ==
    /\ tf.pc = "page_loop"
    /\ tf' = [tf EXCEPT !.text = page_text(tf.post), !.pc = "page_payload"]
    /\ UNCHANGED <<migVars, imgVars, fetch, fn, env, faults, aborts, nruns>>

\* The loop body from the featured media lookup to the dry-run test.
build_page_payload ==
    /\ tf.pc = "page_payload"
    /\ tf' = [tf EXCEPT !.payload = page_payload(tf.post, tf.text, tf.data),
                        !.pc = IF tf.dry THEN "page_continue" ELSE "page_post"]
    /\ UNCHANGED <<migVars, imgVars, fetch, fn, env, faults, aborts, nruns>>

\* requests.post of the payload: the page is created or the call refused.
post_page ==
    /\ tf.pc = "page_post"
    /\ \E o \in {"ok", "rejected"} : tf' = [tf EXCEPT !.pc = "page_continue", !.outcome = o]
    /\ UNCHANGED <<migVars, imgVars, fetch, fn, env, faults, aborts, nruns>>

NextPayload ==
    \/ read_post \/ build_payload \/ post_article
    \/ read_page \/ build_page_payload \/ post_page

SpecPayload == InitPayload /\ [][NextPayload]_vars


\* --------------------------------------------- wp_fetch_all: pagination
\* What a source answers to the request of a page: the answer it has for
\* that page, and 400 (rest_post_invalid_page_number) past its last answer.
Response(src, page) ==
    IF page <= Len(src) THEN src[page]
    ELSE [status |-> 400, batch |-> <<>>, headers |-> EmptyMap]

\* int(resp.headers.get("X-WP-TotalPages", 1))
total_pages(resp) ==
    IF "X-WP-TotalPages" \in DOMAIN resp.headers
    THEN resp.headers["X-WP-TotalPages"]
    ELSE 1

\* A bug to test the claims against: a batch is put in front of the items.
extend_front(items, batch) == batch \o items

\* items.extend(batch)
extend(items, batch) == items \o batch

\* The sources explored: MaxPages answers, each a 200 with a batch of no,
\* one or two items (item k of page p is <<p, k>>) and a total-page header
\* or none, or a 400, or another error status.
RECURSIVE SourceInputs(_)
SourceInputs(n) ==
    LET batch(m) == [k \in 1..m |-> <<n, k>>]
        headers == {EmptyMap} \cup {[h \in {"X-WP-TotalPages"} |-> t] : t \in 0..MaxPages}
        answers == {[status |-> 200, batch |-> batch(m), headers |-> h] :
                       m \in 0..2, h \in headers}
                   \cup {[status |-> st, batch |-> <<>>, headers |-> EmptyMap] :
                            st \in {400, 500}}
    IN IF n = 0 THEN {<<>>}
       ELSE {Append(src, a) : src \in SourceInputs(n - 1), a \in answers}

InitFetch ==
    /\ InitTools
    /\ env = QuietEnv
    /\ tf = NoTransform
    /\ fn = NoFn
    /\ fetch \in {[pc |-> "call", src |-> src, page |-> 0, items |-> <<>>] :
                    src \in SourceInputs(MaxPages)}

\* wp_fetch_all is called: items = [], page = 1.
wp_fetch_all_call ==
    /\ fetch.pc = "call"
    /\ fetch' = [fetch EXCEPT !.pc = "loop", !.page = 1, !.items = <<>>]
    /\ UNCHANGED <<migVars, imgVars, tf, fn, env, faults, aborts, nruns>>

\* One turn of the while loop: the request of the page, the 400 test,
\* raise_for_status, the empty-batch test, extend, the total-page test.
wp_fetch_all_iter ==
    /\ fetch.pc = "loop"
    /\ LET resp == Response(fetch.src, fetch.page)
           items == extend(fetch.items, resp.batch)
       IN fetch' =
            IF resp.status = 400 THEN [fetch EXCEPT !.pc = "returned"]
            ELSE IF resp.status >= 400 THEN [fetch EXCEPT !.pc = "raised"]
            ELSE IF resp.batch = <<>> THEN [fetch EXCEPT !.pc = "returned"]
            ELSE IF fetch.page >= total_pages(resp)
            THEN [fetch EXCEPT !.items = items, !.pc = "returned"]
            ELSE [fetch EXCEPT !.items = items, !.page = @ + 1]
    /\ UNCHANGED <<migVars, imgVars, tf, fn, env, faults, aborts, nruns>>

NextFetch == wp_fetch_all_call \/ wp_fetch_all_iter

\* The loop is sequential code: a call that can take a turn takes it.
SpecFetch == InitFetch /\ [][NextFetch]_vars /\ WF_vars(NextFetch)

\* ------------------------------------- resize_image: the new dimensions
\* Python's float is the IEEE 754 double: MantissaBits significant bits,
\* every operation rounded to the nearest double, ties to the even one.  A
\* positive double is modelled as [m, e], of value m * 2^e, where m is a
\* natural number of exactly MantissaBits bits.  Such numbers are written as
\* the sequence of their digits in base 2^15, the most significant first;
\* the second operand of the operators below is a positive int below 2^15.
\*
\* x * k
MulSmall(x, k) ==
    LET RECURSIVE Times(_, _)
        Times(y, carry) ==
            IF y = <<>>
            THEN IF carry = 0 THEN <<>> ELSE <<carry>>
            ELSE LET v == y[Len(y)] * k + carry
                 IN Append(Times(SubSeq(y, 1, Len(y) - 1), v \div 2^15), v % 2^15)
    IN Times(x, 0)

\* The quotient q and the remainder r of x by d.
DivSmall(x, d) ==
    LET RECURSIVE Div(_, _, _)
        Div(y, r, q) ==
            IF y = <<>>
            THEN [q |-> q, r |-> r]
            ELSE LET v == r * 2^15 + y[1]
                     digit == v \div d
                 IN Div(Tail(y), v % d, IF q = <<>> /\ digit = 0 THEN q ELSE Append(q, digit))
    IN Div(x, 0, <<>>)

\* x + 1
AddOne(x) ==
    LET RECURSIVE Inc(_)
        Inc(y) == IF y = <<>> THEN <<1>>
                  ELSE IF y[Len(y)] + 1 < 2^15
                       THEN [y EXCEPT ![Len(y)] = @ + 1]
                       ELSE Append(Inc(SubSeq(y, 1, Len(y) - 1)), 0)
    IN Inc(x)

\* The number of bits of x.
BitLen(x) ==
    IF x = <<>> THEN 0
    ELSE 15 * (Len(x) - 1) + (CHOOSE n \in 1..15 : 2^(n - 1) <= x[1] /\ x[1] < 2^n)

\* The double nearest to x * 2^e, for x of MantissaBits bits or a few more.
Round53(x, e) ==
    LET t == BitLen(x) - MantissaBits
        cut == DivSmall(x, 2^t)
        odd == cut.q[Len(cut.q)] % 2 = 1
        up == t > 0 /\ (2 * cut.r > 2^t \/ (2 * cut.r = 2^t /\ odd))
        m == IF up THEN AddOne(cut.q) ELSE cut.q
    IN IF BitLen(m) > MantissaBits
       THEN [m |-> DivSmall(m, 2).q, e |-> e + t + 1]
       ELSE [m |-> m, e |-> e + t]

\* n / d for two positive ints below 2^15: the quotient of n * 2^s by d,
\* with s such that it has MantissaBits bits, rounded by the remainder.
fdiv(n, d) ==
    LET log == CHOOSE k \in -15..15 :
                   IF k >= 0 THEN d * 2^k <= n /\ n < d * 2^(k + 1)
                             ELSE d <= n * 2^(-k) /\ n * 2^(-k) < 2 * d
        s == MantissaBits - 1 - log
        top == n * 2^(s % 15)
        scaled == (IF top < 2^15 THEN <<top>> ELSE <<top \div 2^15, top % 2^15>>)
                  \o [j \in 1..(s \div 15) |-> 0]
        cut == DivSmall(scaled, d)
        odd == cut.q[Len(cut.q)] % 2 = 1
        up == 2 * cut.r > d \/ (2 * cut.r = d /\ odd)
        m == IF up THEN AddOne(cut.q) ELSE cut.q
    IN IF BitLen(m) > MantissaBits
       THEN [m |-> DivSmall(m, 2).q, e |-> 1 - s]
       ELSE [m |-> m, e |-> -s]

\* k * x for a positive int k (converted to float without loss) and a
\* double x: the exact product, rounded.
fmul(k, x) == Round53(MulSmall(x.m, k), x.e)

\* min(a, b) of two positive doubles.
fmin(a, b) ==
    LET less == \/ a.e < b.e
                \/ /\ a.e = b.e
                   /\ \E k \in 1..Len(a.m) :
                         /\ a.m[k] < b.m[k]
                         /\ \A j \in 1..(k - 1) : a.m[j] = b.m[j]
    IN IF less THEN a ELSE b

\* int(x) of a positive double below 2^30.
int_of(x) ==
    LET n == -x.e
        kept == SubSeq(x.m, 1, Len(x.m) - n \div 15)
        q == DivSmall(kept, 2^(n % 15)).q
    IN CASE q = <<>> -> 0
         [] Len(q) = 1 -> q[1]
         [] Len(q) = 2 -> q[1] * 2^15 + q[2]

\* resize_image on an image of w x h pixels that PIL can read: the buffer
\* is there or not, and the dimensions returned.  Image.resize raises
\* ValueError for a dimension of 0 and the except branch returns None, 0, 0.
new_size(w, h) ==
    IF w > MAX_WIDTH \/ h > MAX_HEIGHT
    THEN LET ratio == fmin(fdiv(MAX_WIDTH, w), fdiv(MAX_HEIGHT, h))
             new_w == int_of(fmul(w, ratio))
             new_h == int_of(fmul(h, ratio))
         IN IF new_w = 0 \/ new_h = 0
            THEN [buf |-> FALSE, w |-> 0, h |-> 0]
            ELSE [buf |-> TRUE, w |-> new_w, h |-> new_h]
    ELSE [buf |-> TRUE, w |-> w, h |-> h]

\* The image sizes explored: a few widths with every height up to MaxSide,
\* and a few heights with every width up to MaxSide.
ResizeInputs ==
    {<<w, h>> : w \in {1, 800, 1200, 1617, 2400}, h \in 1..MaxSide}
    \cup {<<w, h>> : w \in 1..MaxSide, h \in {1, 600, 800, 1078, 1600}}

CleanInputs ==
    Texts({"a", " ", "\n", Html.div, Html.et_pb, Html.end, Html.img}, MaxHtml)

\* WP_CATEGORY_MAP: the curated names and colour of the known slugs.
WP_CATEGORY_MAP ==
    [slug \in WP_CATEGORY_SLUGS |->
       CASE slug = "diplomacia" ->
              [nomePt |-> "Diplomacia", nomeEn |-> "Diplomacy", nomeDe |-> "Diplomatie", cor |-> "#1a237e"]
         [] slug = "politica" ->
              [nomePt |-> "Política", nomeEn |-> "Politics", nomeDe |-> "Politik", cor |-> "#b71c1c"]
         [] slug = "economia" ->
              [nomePt |-> "Economia", nomeEn |-> "Economy", nomeDe |-> "Wirtschaft", cor |-> "#1b5e20"]
         [] slug = "cultura" ->
              [nomePt |-> "Cultura", nomeEn |-> "Culture", nomeDe |-> "Kultur", cor |-> "#e65100"]
         [] slug = "desporto" ->
              [nomePt |-> "Desporto", nomeEn |-> "Sports", nomeDe |-> "Sport", cor |-> "#0d47a1"]
         [] slug = "turismo" ->
              [nomePt |-> "Turismo", nomeEn |-> "Tourism", nomeDe |-> "Tourismus", cor |-> "#00695c"]
         [] slug = "diaspora" ->
              [nomePt |-> "Angolanos na Diáspora", nomeEn |-> "Angolans Abroad",
               nomeDe |-> "Angolaner im Ausland", cor |-> "#4a148c"]
         [] slug = "reportagem" ->
              [nomePt |-> "Reportagem", nomeEn |-> "Report", nomeDe |-> "Reportage", cor |-> "#263238"]
         [] slug = "responsabilidade-social" ->
              [nomePt |-> "Responsabilidade Social", nomeEn |-> "Social Responsibility",
               nomeDe |-> "Soziale Verantwortung", cor |-> "#880e4f"]
         [] slug = "webinares" ->
              [nomePt |-> "Webinares", nomeEn |-> "Webinars", nomeDe |-> "Webinare", cor |-> "#311b92"]
         [] slug = "destaques" ->
              [nomePt |-> "Destaques", nomeEn |-> "Highlights", nomeDe |-> "Highlights", cor |-> "#cc092f"]]

\* A bug to test the claims against: the table is not consulted.
category_payload_plain(cat) ==
    [slug |-> cat.slug, nomePt |-> cat.name, nomeEn |-> "", nomeDe |-> "", nomeCs |-> "",
     descricaoPt |-> IF "description" \in DOMAIN cat THEN cat.description ELSE "",
     cor |-> "#607d8b",
     sortOrder |-> IF "count" \in DOMAIN cat THEN cat.count ELSE 0]

\* migrate_categories: the payload of POST /api/v1/categories.
category_payload(cat) ==
    LET known == cat.slug \in DOMAIN WP_CATEGORY_MAP
        mapping == WP_CATEGORY_MAP[cat.slug]
    IN [slug |-> cat.slug,
        nomePt |-> IF known THEN mapping.nomePt ELSE cat.name,
        nomeEn |-> IF known THEN mapping.nomeEn ELSE "",
        nomeDe |-> IF known THEN mapping.nomeDe ELSE "",
        nomeCs |-> "",
        descricaoPt |-> IF "description" \in DOMAIN cat THEN cat.description ELSE "",
        cor |-> IF known THEN mapping.cor ELSE "#607d8b",
        sortOrder |-> IF "count" \in DOMAIN cat THEN cat.count ELSE 0]

\* Source categories: every slug of the table and two outside it, with and
\* without a description and a count.
CategoryInputs ==
    LET slugs == WP_CATEGORY_SLUGS \cup {"uncategorized", "comunidade"}
        bare == {[id |-> id, slug |-> slug, name |-> name] :
                    id \in {5, 12}, slug \in slugs, name \in {"Nome", "Diplomacia"}}
    IN bare \cup {[id |-> c.id, slug |-> c.slug, name |-> c.name,
                    description |-> d, count |-> n] :
                     c \in bare, d \in {"", "texto"}, n \in {0, 7}}

\* One call of a helper function on one of the bounded inputs.
InitCall ==
    /\ InitTools
    /\ env = QuietEnv
    /\ tf = NoTransform
    /\ fetch = NoFetch
    /\ fn \in {[pc |-> "call", name |-> "resize_image", arg |-> size, out |-> None] :
                 size \in ResizeInputs}
               \cup {[pc |-> "call", name |-> "wp_extract_excerpt", arg |-> a, out |-> None] :
                       a \in ExcerptInputs}
               \cup {[pc |-> "call", name |-> "wp_clean_html", arg |-> html, out |-> None] :
                       html \in CleanInputs}
               \cup {[pc |-> "call", name |-> "migrate_categories", arg |-> cat, out |-> None] :
                       cat \in CategoryInputs}

\* resize_image(file_path) for a file PIL opens, up to the dimensions.
resize_image_call ==
    /\ fn.pc = "call" /\ fn.name = "resize_image"
    /\ fn' = [fn EXCEPT !.pc = "returned", !.out = new_size(fn.arg[1], fn.arg[2])]
    /\ UNCHANGED <<migVars, imgVars, tf, fetch, env, faults, aborts, nruns>>

wp_extract_excerpt_call ==
    /\ fn.pc = "call" /\ fn.name = "wp_extract_excerpt"
    /\ fn' = [fn EXCEPT !.pc = "returned", !.out = wp_extract_excerpt(fn.arg[1], fn.arg[2])]
    /\ UNCHANGED <<migVars, imgVars, tf, fetch, env, faults, aborts, nruns>>

wp_clean_html_call ==
    /\ fn.pc = "call" /\ fn.name = "wp_clean_html"
    /\ fn' = [fn EXCEPT !.pc = "returned", !.out = wp_clean_html(fn.arg)]
    /\ UNCHANGED <<migVars, imgVars, tf, fetch, env, faults, aborts, nruns>>

\* The loop body of migrate_categories for one category that is not in the
\* ledger, in a run that is not a dry run: skipped, or posted and recorded
\* when the target answers 200 or 201 with an id.
migrate_categories_call ==
    /\ fn.pc = "call" /\ fn.name = "migrate_categories"
    /\ LET cat == fn.arg
           key == Str(cat.id)
       IN IF cat.slug = "uncategorized"
          THEN fn' = [fn EXCEPT !.pc = "returned",
                                !.out = [outcome |-> "skipped", wp_categories |-> EmptyMap]]
          ELSE \E o \in {"ok", "rejected"}, wn_id \in {"id-1", "id-2"} :
                 fn' = [fn EXCEPT
                          !.pc = "returned",
                          !.out = [outcome |-> o, payload |-> category_payload(cat),
                                   wn_id |-> wn_id,
                                   wp_categories |-> IF o = "ok" THEN Put(EmptyMap, key, wn_id)
                                                     ELSE EmptyMap]]
    /\ UNCHANGED <<migVars, imgVars, tf, fetch, env, faults, aborts, nruns>>

NextCall ==
    \/ migrate_categories_call
    \/ resize_image_call
    \/ wp_extract_excerpt_call
    \/ wp_clean_html_call

SpecCall == InitCall /\ [][NextCall]_vars

\* ================================================================ claims
\* The step function that sends requests to an endpoint.
StepOf(e) ==
    CASE e[1] = "category" -> "categories"
      [] e[1] = "author" -> "author"
      [] e[1] \in {"media_wn", "media_si"} -> "media"
      [] e[1] \in {"post", "submit", "review", "publish"} -> "posts"
      [] e[1] \in {"page", "estado"} ->
           IF <<"page", e[2]>> \in AdditionalEntities THEN "additional_pages" ELSE "pages"
      [] e[1] \in {"menu", "header_item", "footer_item"} -> "menus"
      [] e[1] = "contact" -> "contacts"
      [] OTHER -> "main"

\* The requests that write to a target service.
WriteEndpoints == CreateEntities \cup PatchEntities

\* The entities that have a source id, which is their key in an id map.
SourceEntities == CategoryEntities \cup MediaEntities \cup PostEntities \cup PageEntities

\* The steps the ledger d lists as completed.
Completed(d) == Range(d.completed_steps)

\* The position of the last step of STEP_ORDER that d lists (0: none).
LastCompleted(d) ==
    LET done == {k \in DOMAIN STEP_ORDER : STEP_ORDER[k] \in Completed(d)}
    IN IF done = {} THEN 0 ELSE CHOOSE k \in done : \A j \in done : j <= k

StepIndex(step) == CHOOSE k \in DOMAIN STEP_ORDER : STEP_ORDER[k] = step

\* This invocation is a real full run that follows a real full run that was killed.
Resumed ==
    /\ run.mode = "full" /\ ~run.dry
    /\ prev.mode = "full" /\ ~prev.dry /\ prev.exit = "killed"

\* No create request for a source entity that the loaded ledger already maps.
SkipsMapped ==
    \A e \in reqs \cap SourceEntities : e[2] \notin DOMAIN start[MapOf(e[1])]

\* C1 as stated: a restarted full run sends no write request and reads no
\* source for any of the steps 1..k, k being the last step the killed run had
\* marked done, and inside the interrupted step sends no create request for an
\* entity whose source id the ledger maps.
C1_ResumabilityAsStated ==
    Resumed =>
        /\ \A e \in reqs \cap WriteEndpoints : StepIndex(StepOf(e)) > LastCompleted(start)
        /\ \A r \in reads : StepIndex(r[1]) > LastCompleted(start)
        /\ SkipsMapped

\* C1 amended: a restarted full run sends no write request and reads no source
\* for any step that the persisted ledger lists in completed_steps (the author
\* step is not listed when its creation was rejected, and is then run again),
\* and sends no create request for a source entity the ledger already maps.
C1_Resumability ==
    Resumed =>
        /\ \A e \in reqs \cap WriteEndpoints : StepOf(e) \notin Completed(start)
        /\ \A r \in reads : r[1] \notin Completed(start)
        /\ SkipsMapped

\* The restarted run found the categories step done and a post of the
\* interrupted posts step mapped, created the other post and returned.
C1_Witness ==
    /\ Resumed /\ pc = "idle" /\ exit.how = "ok"
    /\ "categories" \in Completed(start)
    /\ "posts" \notin Completed(start)
    /\ DOMAIN start.wp_posts = {Str(WpPosts[1].id)}
    /\ <<"post", Str(WpPosts[2].id)>> \in reqs

\* This invocation is a real full run that follows a real full run that
\* returned from main().
SecondPass ==
    /\ run.mode = "full" /\ ~run.dry
    /\ prev.mode = "full" /\ ~prev.dry /\ prev.exit = "ok"

\* A step of the process that sends no write request and leaves the ledger,
\* the state file and the target services as they are.
NoEffect ==
    /\ reqs' \cap WriteEndpoints = reqs \cap WriteEndpoints
    /\ mem' = mem
    /\ disk' = disk
    /\ \A e \in WriteEndpoints : created'[e] = created[e]

\* C2 as stated: the full run after a finished full run sends no create, patch
\* or upload request and changes neither the ledger nor the target, whatever
\* failed in the first run.
C2_IdempotenceAsStated == [][SecondPass /\ pc # "idle" => NoEffect]_vars

\* C2 amended: the same, provided the first run recorded the author (the
\* ledger the second run loads lists the author step in completed_steps); the
\* creations of other entities may have failed in the first run.
C2_Idempotence ==
    [][SecondPass /\ pc # "idle" /\ "author" \in Completed(start) => NoEffect]_vars

\* The second full run returned after a first one in which a creation failed
\* and the author was recorded.
C2_Witness ==
    /\ SecondPass /\ pc = "idle" /\ exit.how = "ok"
    /\ "author" \in Completed(start)
    /\ prev.failed # {}
    /\ reqs = {TokenEntity}

\* C3: a --dry-run invocation sends no write request and leaves the in-memory
\* ledger and the state file as they were when it started.
C3_DryRunPurity == [][run.dry /\ pc # "idle" => NoEffect]_vars

\* C4: a step function invoked while its name is in completed_steps returns
\* without a source read, a remote call or a change of the ledger.
C4_StepShortCircuit ==
    [][pc = "enter" /\ call \in Completed(mem) =>
          /\ pc' \in {"ret", "idle"}
          /\ reads' = reads
          /\ reqs' = reqs
          /\ created' = created
          /\ mem' = mem
          /\ disk' = disk]_vars

\* A real --step posts found posts completed and returned at once.
C4_Witness ==
    /\ pc = "ret" /\ call = "posts" /\ run.mode = "step" /\ ~run.dry
    /\ "posts" \in Completed(mem)
    /\ reads = {}
    /\ reqs = {TokenEntity}

\* C5: no create or upload request is sent for an entity whose key is in its
\* id map of the ledger.
C5_NeverRecreated ==
    [][\A e \in reqs' \ reqs :
          e[1] \in IdMapKinds => e[2] \notin DOMAIN mem[MapOf(e[1])]]_vars

\* b keeps every entry of the dict a.
KeepsMap(a, b) == \A k \in DOMAIN a : k \in DOMAIN b /\ b[k] = a[k]

\* b keeps every element of the list a, in place.
KeepsList(a, b) == Len(a) <= Len(b) /\ \A k \in DOMAIN a : b[k] = a[k]

\* The ledger b is the ledger a with entries added.
Extends(a, b) ==
    /\ \A m \in {"wp_categories", "wp_posts", "wp_pages", "wp_media_si", "wp_media_wn",
                 "si_menus"} : KeepsMap(a[m], b[m])
    /\ a.wn_author_id # None => b.wn_author_id = a.wn_author_id
    /\ KeepsList(a.si_contacts, b.si_contacts)
    /\ KeepsList(a.completed_steps, b.completed_steps)

\* C6: without --reset, no step of a process removes an entry of the ledger
\* or changes the id stored under a key.
C6_AppendOnly == [][pc # "idle" /\ pc' # "idle" => Extends(mem, mem')]_vars

\* The articles that have an image in wn_db that the persisted importer
\* state does not record.
UnrecordedImages ==
    {slug \in ArticleSlugs : db.featured[slug] # None}
        \ DOMAIN load_state(img_disk).imported

\* C7: in both tools, when a remote creation is attempted every earlier
\* mutation of the ledger is in the state file, so that the persisted ledger
\* misses at most the one entity in flight.
C7_ImmediatePersistence ==
    [][/\ pc # "idle" /\ reqs' \cap CreateEntities # reqs \cap CreateEntities
            => Load(disk) = mem
       /\ img_pc = "upload" => load_state(img_disk).imported = img_mem.imported
       /\ Cardinality(UnrecordedImages') <= 1]_vars

\* The process is inside the body of a step function, before mark_step.
InBody ==
    \/ pc \in {"loop", "media_si", "upload_wn", "upload_si", "wf_submit", "wf_review",
               "wf_publish", "estado", "menu_header", "menu_footer", "header_items",
               "footer_items", "menus_end", "author_mark"}
    \/ pc = "save" /\ after # "ret"

\* C8 as stated: in a real run a step is not in completed_steps while its
\* entities are being processed, and it is once the last one is processed.
C8_StepCompletionAsStated ==
    ~run.dry =>
        /\ InBody => call \notin Completed(mem)
        /\ pc = "ret" => call \in Completed(mem)

\* C8 amended: in a real run a step is not in completed_steps while its
\* entities are being processed; when the step returns it is in
\* completed_steps, except the author step, which is in completed_steps
\* exactly when an author id is recorded (a rejected creation leaves it out).
C8_StepCompletion ==
    ~run.dry =>
        /\ InBody => call \notin Completed(mem)
        /\ pc = "ret" /\ call # "author" => call \in Completed(mem)
        /\ pc = "ret" /\ call = "author" =>
              (call \in Completed(mem)) = (mem.wn_author_id # None)

\* The categories step returned marked done although a creation was rejected.
C8_Witness ==
    /\ pc = "ret" /\ call = "categories" /\ ~run.dry
    /\ "categories" \in Completed(mem)
    /\ failed \cap CategoryEntities # {}

\* C9: no failure of an entity's remote call ends the process.
C9_FailureIsolation == ~(exit.how = "exception" /\ exit.cause = "entity")

\* C10: a failed creation leaves the ledger as it is, and the next real full
\* run that returns has sent the create request of every entity whose
\* creation failed in the invocation before it.
C10_RetryFailed ==
    [][/\ pc # "idle" /\ failed' # failed => mem' = mem
       /\ run.mode = "full" /\ ~run.dry /\ pc' = "idle" /\ exit'.how = "ok"
            => \A e \in prev.failed : e \in reqs']_vars

\* The calls and returns of a run that invokes the steps of order one after
\* the other, each returning before the next is called.
InOrder(order) ==
    [k \in 1..(2 * Len(order)) |->
        IF k % 2 = 1 THEN <<"call", order[(k + 1) \div 2]>>
                     ELSE <<"return", order[k \div 2]>>]

ClaimedOrder == <<"categories", "author", "media", "posts", "pages",
                  "additional_pages", "menus", "contacts">>

C12_AuthFailure ==
    [][/\ (pc = "auth" /\ ~run.dry /\ faults' # faults) =>
              /\ pc' = "idle"
              /\ exit' = [how |-> "sysexit", cause |-> "auth"]
              /\ trace' = <<>>
              /\ reads' = {}
              /\ reqs' = {TokenEntity}
              /\ mem' = start'
              /\ UNCHANGED <<disk, cache, created, mem>>
       /\ run'.dry => TokenEntity \notin reqs'
       /\ (~run'.dry /\ trace' # <<>>) => TokenEntity \in reqs'
      ]_vars

\* A real run ended by a refused token exchange.
C12_Witness ==
    /\ pc = "idle" /\ ~run.dry
    /\ exit = [how |-> "sysexit", cause |-> "auth"]
    /\ reqs = {TokenEntity}

\* The objects of the store that no media_files record references.
Orphans == minio \ db.media_files

\* The dual write of wp_import_images in every step: records reference
\* written objects, links reference records, an attempt whose object-store
\* write does not succeed changes neither store, and an attempt past its
\* object write ends without a record only in the ways of causes.
DualWrite(causes) ==
    /\ db'.media_files \subseteq minio'
    /\ \A slug \in DOMAIN db'.featured :
          db'.featured[slug] # None => db'.featured[slug] \in db'.media_files
    /\ (img_pc = "upload" /\ img_pc' # "db") => UNCHANGED <<db, minio>>
    /\ minio' # minio => img_pc = "upload" /\ img_pc' = "db" /\ UNCHANGED db
    /\ (img_pc = "db" /\ img_pc' # "db" /\ media_id \notin db'.media_files) =>
          \/ "db_error" \in causes /\ faults' = faults + 1 /\ img_pc' = "loop"
          \/ "kill" \in causes /\ img_exit'.how = "killed"

\* C13 as the specification states it: an object without a record is left
\* only by a failure of the relational insert or commit.
C13_DualWriteAsStated == [][DualWrite({"db_error"})]_vars

\* C13: every media_files record references an object already in the object
\* store and every linked article a record; a failed object-store write
\* inserts and links nothing; an object without a record is left only when
\* the insert or commit fails after the object write, or when the process is
\* ended between the object write and the commit.
C13_DualWrite == [][DualWrite({"db_error", "kill"})]_vars

\* One image is committed with its object, and a run killed between the
\* object write and the commit has left an object without a record.
C13_Witness ==
    /\ img_pc = "idle" /\ img_exit.how = "killed"
    /\ db.media_files # {}
    /\ media_id \in Orphans

\* C14: a rejected upload of migrate_media adds no entry to wp_media_wn or
\* wp_media_si, and the next real full run that returns has sent the upload
\* of every asset whose upload was rejected in the invocation before it.
C14_MediaRetry ==
    [][/\ (pc # "idle" /\ (failed' \ failed) \cap MediaEntities # {}) =>
              /\ mem'.wp_media_wn = mem.wp_media_wn
              /\ mem'.wp_media_si = mem.wp_media_si
       /\ (run.mode = "full" /\ ~run.dry /\ pc' = "idle" /\ exit'.how = "ok") =>
              \A e \in prev.failed \cap MediaEntities : e \in reqs'
      ]_vars

\* The entry of key in an id map is in memory and in the state file.
Saved(map, key) ==
    /\ key \in DOMAIN mem[map]
    /\ disk.st = "valid"
    /\ key \in DOMAIN Load(disk)[map]
    /\ Load(disk)[map][key] = mem[map][key]

\* C15: a created article is recorded in wp_posts and the next statement is
\* save(); every workflow call is sent with the mapping in memory and in the
\* state file, and leaves both as they are whatever its outcome; submit comes
\* before review and review before publish.  The publish call of a page is
\* sent with its wp_pages entry saved and leaves it as it is.
C15_WorkflowAdvancement ==
    [][/\ \A k \in 1..NumPosts :
            LET key == Str(WpPosts[k].id)
                sent(op) == <<op, key>> \in reqs' \ reqs
                before(op) == <<op, key>> \in reqs
            IN /\ created'[<<"post", key>>] > created[<<"post", key>>] =>
                      /\ key \in DOMAIN mem'.wp_posts
                      /\ pc' = "save" /\ after' = "wf_submit"
               /\ (sent("submit") \/ sent("review") \/ sent("publish")) =>
                      Saved("wp_posts", key) /\ UNCHANGED <<mem, disk>>
               /\ sent("submit") => ~before("review") /\ ~before("publish")
               /\ sent("review") => before("submit") /\ ~before("publish")
               /\ sent("publish") => before("submit") /\ before("review")
       /\ \A e \in PageEntities \cup AdditionalEntities :
            /\ created'[e] > created[e] =>
                  /\ e[2] \in DOMAIN mem'.wp_pages
                  /\ pc' = "save" /\ after' = "estado"
            /\ <<"estado", e[2]>> \in reqs' \ reqs =>
                  Saved("wp_pages", e[2]) /\ UNCHANGED <<mem, disk>>
      ]_vars

\* The three workflow calls of an article were sent, one of them was refused,
\* and the mapping of the article is in memory and in the state file.
C15_Witness ==
    LET key == Str(WpPosts[1].id)
    IN /\ pc = "loop" /\ call = "posts"
       /\ {<<"submit", key>>, <<"review", key>>, <<"publish", key>>} \subseteq reqs
       /\ created[<<"review", key>>] = 0
       /\ Saved("wp_posts", key)

\* C16: whatever the sequence of invocations, each of the three fixed
\* contacts and each fixed header or footer menu item is created in the
\* target at most once.
C16_FixedEntitiesOnce ==
    \A e \in ContactEntities \cup ItemEntities : created[e] <= 1

\* C17: at every instant the state file of the migration is absent or a
\* complete JSON document, and so is the state file of the image importer.
C17_AlwaysValidFile ==
    /\ disk.st \in {"absent", "valid"}
    /\ img_disk.st \in {"absent", "valid"}

\* C18: the file download_media hands to an upload is a whole file, fetched
\* by this call or by an earlier one that completed: never what a failed or
\* interrupted download left behind.
C18_CacheReuse ==
    [][(call = "media" /\ pc \in {"loop", "media_si"}
        /\ pc' \in {"upload_wn", "upload_si"}) =>
           cache'[WpMedia[idx].id] = "full"]_vars

\* The positions of the post's source category ids that are keys of
\* wp_categories.
MappedAt(post, data) ==
    {k \in 1..Len(post.categories) : Str(post.categories[k]) \in DOMAIN data.wp_categories}

\* C19: the payload's categoryId is the id wp_categories maps to the first,
\* in list order, of the post's source category ids that is one of its keys;
\* when none is, the payload has no categoryId; in both cases a real run
\* goes on to send the POST.
C19_CategoryResolution ==
    tf.pc \in {"post", "continue"} =>
        LET at == MappedAt(tf.post, tf.data)
            first == CHOOSE k \in at : \A j \in at : k <= j
        IN /\ IF at = {}
              THEN "categoryId" \notin DOMAIN tf.payload
              ELSE /\ "categoryId" \in DOMAIN tf.payload
                   /\ tf.payload["categoryId"] =
                          tf.data.wp_categories[Str(tf.post.categories[first])]
           /\ ~tf.dry => tf.pc = "post" \/ tf.outcome # "none"

\* An article whose two source categories are both mapped, to different
\* ids, was created.
C19_Witness ==
    /\ tf.pc = "continue" /\ tf.outcome = "ok"
    /\ MappedAt(tf.post, tf.data) = {1, 2}
    /\ tf.post.categories[1] # tf.post.categories[2]

\* The loop stops at page p of the source: the page is answered 400, its
\* batch is empty, or p has reached the total-page count of its answer (1
\* when the answer has no such header).
StopsAt(src, p) ==
    LET r == Response(src, p)
        total == IF "X-WP-TotalPages" \in DOMAIN r.headers
                 THEN r.headers["X-WP-TotalPages"] ELSE 1
    IN r.status = 400 \/ (r.status = 200 /\ r.batch = <<>>) \/ p >= total

\* The first page at which the loop stops.
LastPage(src) ==
    CHOOSE p \in 1..(Len(src) + 1) :
        StopsAt(src, p) /\ \A q \in 1..(p - 1) : ~StopsAt(src, q)

\* The source answers every page up to the last with a batch or with 400.
Answers(src) == \A p \in 1..LastPage(src) : Response(src, p).status \in {200, 400}

\* The batches of pages 1..n, in page order and in-page order.
RECURSIVE Concat(_, _)
Concat(src, n) ==
    IF n = 0 THEN <<>> ELSE Concat(src, n - 1) \o Response(src, n).batch

\* C20: for a source that answers every page with a batch or with 400,
\* wp_fetch_all requests no page past the first at which the total-page
\* count is reached, the batch is empty or the answer is 400; it never
\* raises, a 400 included; it returns, and what it returns is the batches of
\* the pages up to that one, in page order and in-page order.
C20_Pagination ==
    /\ [](fetch.pc # "idle" /\ Answers(fetch.src) =>
            /\ fetch.pc # "raised"
            /\ fetch.page <= LastPage(fetch.src)
            /\ fetch.pc = "loop" => fetch.items = Concat(fetch.src, fetch.page - 1)
            /\ fetch.pc = "returned" =>
                  /\ fetch.page = LastPage(fetch.src)
                  /\ fetch.items = Concat(fetch.src, LastPage(fetch.src)))
    /\ (fetch.pc # "idle" /\ Answers(fetch.src)) ~> (fetch.pc = "returned")

\* The call returned the items of two pages after a 400 for the third.
C20_Witness ==
    /\ fetch.pc = "returned" /\ fetch.page = 3
    /\ Response(fetch.src, 3).status = 400
    /\ Len(fetch.items) = 4

\* C21: resize_image returns the size unchanged when w <= 1200 and
\* h <= 800, and otherwise (floor(w*r), floor(h*r)) with r the smaller of
\* 1200/w and 800/h; the width returned is above neither 1200 nor w, the
\* height above neither 800 nor h.
C21_BoundedResize ==
    fn.pc = "returned" /\ fn.name = "resize_image" =>
        LET w == fn.arg[1]
            h == fn.arg[2]
            claimed == IF w <= 1200 /\ h <= 800 THEN <<w, h>>
                       ELSE IF 1200 * h <= 800 * w
                            THEN <<1200, (1200 * h) \div w>>
                            ELSE <<(800 * w) \div h, 800>>
        IN /\ fn.out.buf
           /\ <<fn.out.w, fn.out.h>> = claimed
           /\ fn.out.w <= 1200 /\ fn.out.w <= w
           /\ fn.out.h <= 800 /\ fn.out.h <= h

\* C22: wp_extract_excerpt of a plain text longer than max_len is at most
\* max_len + 3 characters long and ends with "..."; what precedes the marker
\* is a prefix of the text that stops at a word boundary, never inside a
\* word; a text of at most max_len characters is returned unchanged.  A plain
\* text has no markup and no white space around it.
C22_ExcerptTruncation ==
    fn.pc = "returned" /\ fn.name = "wp_extract_excerpt"
    /\ (\A i \in 1..Len(fn.arg[1]) : fn.arg[1][i] # Tag)
    /\ strip(fn.arg[1]) = fn.arg[1] =>
        LET text == fn.arg[1]
            max_len == fn.arg[2]
            n == Len(fn.out) - 3
            InWord(k) == k >= 1 /\ k < Len(text) /\ text[k] # " " /\ text[k + 1] # " "
        IN IF Len(text) > max_len
           THEN /\ Len(fn.out) <= max_len + 3
                /\ n >= 0
                /\ SubSeq(fn.out, n + 1, n + 3) = Dots
                /\ SubSeq(fn.out, 1, n) = SubSeq(text, 1, n)
                /\ ~InWord(n)
           ELSE fn.out = text
\* C23: wp_clean_html applied to its own result returns that result; the
\* result has no run of three or more newlines and no white space at either
\* end.
C23_SanitizeIdempotent ==
    fn.pc = "returned" /\ fn.name = "wp_clean_html" =>
        /\ wp_clean_html(fn.out) = fn.out
        /\ \A i \in 3..Len(fn.out) :
              ~(fn.out[i] = "\n" /\ fn.out[i - 1] = "\n" /\ fn.out[i - 2] = "\n")
        /\ strip(fn.out) = fn.out

\* A page-builder wrapper around text, an empty div and a long run of
\* newlines went in, and something came out.
C23_Witness ==
    /\ fn.pc = "returned" /\ fn.name = "wp_clean_html"
    /\ \E i, j, k \in 1..Len(fn.arg) :
          /\ fn.arg[i] = Html.et_pb
          /\ fn.arg[j] = Html.div /\ j < Len(fn.arg) /\ fn.arg[j + 1] = Html.end
          /\ fn.arg[k] = "\n"
    /\ fn.out # <<>>
    /\ \A i \in 1..Len(fn.out) : fn.out[i] \notin {Html.et_pb, Html.div}
\* C24: in the payload migrate_posts builds, slug has at most 290
\* characters, tituloPt at most 300, excertoPt at most 500, metaTituloPt at
\* most 160 and metaDescricaoPt at most 320, and each is a prefix of the
\* value it is cut from; a post whose slug is too long is submitted all the
\* same.
C24_FieldCeilings ==
    tf.pc \in {"post", "continue"} =>
        LET title == SelectSeq(tf.post.title, LAMBDA c : c # Tag)
            excerpt == wp_extract_excerpt(IF tf.post.excerpt # <<>> THEN tf.post.excerpt
                                          ELSE wp_clean_html(tf.post.content), 400)
            Cut(field, whole, n) ==
                /\ Len(tf.payload[field]) <= n
                /\ tf.payload[field] = SubSeq(whole, 1, Len(tf.payload[field]))
                /\ Len(whole) <= n => tf.payload[field] = whole
        IN /\ Cut("slug", tf.post.slug, 290)
           /\ Cut("tituloPt", title, 300)
           /\ Cut("excertoPt", excerpt, 500)
           /\ Cut("metaTituloPt", title, 160)
           /\ Cut("metaDescricaoPt", excerpt, 320)
           /\ (tf.pc = "continue" /\ ~tf.dry => tf.outcome # "none")

\* A post with a slug of 291 characters, a title of 301 and an excerpt over
\* 320 was cut in every field and sent.
C24_Witness ==
    /\ tf.pc = "continue" /\ tf.outcome = "ok"
    /\ Len(tf.post.slug) > 290 /\ Len(tf.payload["slug"]) = 290
    /\ Len(tf.post.title) > 300 /\ Len(tf.payload["tituloPt"]) = 300
    /\ Len(tf.payload["metaTituloPt"]) = 160
    /\ Len(tf.payload["metaDescricaoPt"]) = 320
    /\ Len(tf.payload["excertoPt"]) > 320
\* C25: a --reset invocation removes the ledger file, runs no step and
\* makes no remote call, whatever the file held before; the invocation after
\* it loads the empty ledger.
C25_Reset ==
    run.mode = "reset" /\ pc = "idle" =>
        /\ disk = AbsentFile
        /\ Load(disk) = EmptyLedger
        /\ trace = <<>>
        /\ reqs = {} /\ reads = {}
C27_SingleStep ==
    run.mode = "step" =>
        LET Writes == [st \in STEPS |->
                         CASE st = "categories" -> {"wp_categories"}
                           [] st = "author" -> {"wn_author_id"}
                           [] st = "media" -> {"wp_media_wn", "wp_media_si"}
                           [] st = "posts" -> {"wp_posts"}
                           [] st = "pages" -> {"wp_pages"}
                           [] st = "additional_pages" -> {"wp_pages"}
                           [] st = "menus" -> {"si_menus"}
                           [] st = "contacts" -> {"si_contacts"}]
            calls == {i \in DOMAIN trace : trace[i][1] = "call"}
            Additional(key) == \E slug \in Range(AdditionalSlugs) : key = "additional_" \o slug
            Kept(d) ==
                /\ \A f \in DOMAIN EmptyLedger \ (Writes[run.step] \cup {"completed_steps"}) :
                      d[f] = start[f]
                /\ \A key \in DOMAIN start.wp_pages :
                      Additional(key) # (run.step = "additional_pages") =>
                          key \in DOMAIN d.wp_pages /\ d.wp_pages[key] = start.wp_pages[key]
                /\ \A key \in DOMAIN d.wp_pages \ DOMAIN start.wp_pages :
                      Additional(key) = (run.step = "additional_pages")
                /\ Range(d.completed_steps) \ Range(start.completed_steps) \subseteq {run.step}
                /\ Range(start.completed_steps) \subseteq Range(d.completed_steps)
        IN /\ \A i \in DOMAIN trace : trace[i][2] = run.step
           /\ Cardinality(calls) <= 1
           /\ (pc = "idle" /\ exit.how = "ok" => Cardinality(calls) = 1)
           /\ Kept(mem)
           /\ disk.st = "valid" => Kept(Load(disk))

\* --step posts ran to its end with no earlier step done, created an
\* article and marked itself.
C27_Witness ==
    /\ run.mode = "step" /\ run.step = "posts" /\ ~run.dry
    /\ pc = "idle" /\ exit.how = "ok"
    /\ start.completed_steps = <<>>
    /\ mem.wp_posts # EmptyMap
    /\ mem.completed_steps = <<"posts">>
    /\ disk.st = "valid" /\ Load(disk) = mem
\* C28: the category payload takes nomePt, nomeEn, nomeDe and cor from the
\* WP_CATEGORY_MAP entry of the slug when there is one (diplomacia has cor
\* #1a237e); otherwise nomePt is the source name, descricaoPt the source
\* description and cor #607d8b; after a successful creation
\* wp_categories[str(id)] is the id the target returned.
C28_CuratedCategory ==
    fn.pc = "returned" /\ fn.name = "migrate_categories" /\ fn.out.outcome # "skipped" =>
        LET cat == fn.arg
            payload == fn.out.payload
        IN /\ cat.slug \in WP_CATEGORY_SLUGS =>
                 \A f \in {"nomePt", "nomeEn", "nomeDe", "cor"} :
                     payload[f] = WP_CATEGORY_MAP[cat.slug][f]
           /\ cat.slug = "diplomacia" => payload.cor = "#1a237e"
           /\ cat.slug \notin WP_CATEGORY_SLUGS =>
                 /\ payload.nomePt = cat.name
                 /\ payload.cor = "#607d8b"
                 /\ "description" \in DOMAIN cat => payload.descricaoPt = cat.description
           /\ fn.out.outcome = "ok" =>
                 /\ Str(cat.id) \in DOMAIN fn.out.wp_categories
                 /\ fn.out.wp_categories[Str(cat.id)] = fn.out.wn_id

\* A category of the table whose source name differs from the curated one
\* was created and recorded.
C28_Witness ==
    /\ fn.pc = "returned" /\ fn.name = "migrate_categories"
    /\ fn.arg.slug = "politica" /\ fn.arg.name = "Nome"
    /\ fn.out.outcome = "ok"
    /\ fn.out.payload.nomeDe = "Politik"
    /\ fn.out.wp_categories = Put(EmptyMap, Str(fn.arg.id), fn.out.wn_id)
\* C29: no create request is ever sent for a source page whose id is not a
\* key of WP_PAGE_MAP, nor for the category with slug uncategorized, and
\* neither gets an entry in the ledger, in memory or in the state file.
C29_ExplicitMappingsOnly ==
    LET unmapped == {<<"page", Str(WpPages[k].id)>> :
                        k \in {j \in 1..NumPages : WpPages[j].id \notin WP_PAGE_MAP}}
        catchall == {<<"category", Str(WpCats[k].id)>> :
                        k \in {j \in 1..NumCats : WpCats[j].slug = "uncategorized"}}
        Free(d) == /\ \A e \in unmapped : e[2] \notin DOMAIN d.wp_pages
                   /\ \A e \in catchall : e[2] \notin DOMAIN d.wp_categories
    IN /\ \A e \in unmapped \cup catchall : e \notin reqs /\ created[e] = 0
       /\ Free(mem)
       /\ Free(Load(disk))

\* Both steps are done, in a run that created a mapped page and a category
\* and passed the unmapped page and the uncategorized category.
C29_Witness ==
    /\ {"categories", "pages"} \subseteq Range(mem.completed_steps)
    /\ Str(WpPages[1].id) \in DOMAIN mem.wp_pages
    /\ Str(WpCats[1].id) \in DOMAIN mem.wp_categories
    /\ \E k \in 1..NumPages : WpPages[k].id \notin WP_PAGE_MAP
    /\ \E k \in 1..NumCats : WpCats[k].slug = "uncategorized"
    /\ <<"page", Str(WpPages[1].id)>> \in reqs
\* C30: in every state of wp_import_images, each slug of state["imported"],
\* in memory and in the state file, maps to a media id whose object is in
\* the object store, whose media_files record is committed and which is the
\* featured image of the article; a slug is not in imported before then.
C30_ImportedCommitted ==
    LET Committed(imported) ==
            \A slug \in DOMAIN imported :
                /\ imported[slug] \in minio
                /\ imported[slug] \in db.media_files
                /\ db.featured[slug] = imported[slug]
    IN /\ Committed(img_mem.imported)
       /\ Committed(load_state(img_disk).imported)

\* Two images are imported and on file, after an attempt that failed at the
\* commit and left an object behind.
C30_Witness ==
    /\ Cardinality(DOMAIN img_mem.imported) >= 2
    /\ DOMAIN load_state(img_disk).imported = DOMAIN img_mem.imported
    /\ Orphans # {}
    /\ img_mem.failed # <<>>
\* C31: in wp_import_images the media_files record and the article's
\* featured_image_id are written together or not at all: every step leaves
\* the database as it was or adds one record and the link to it, so that no
\* committed record is without its article and no article links to an id
\* that has no record.
C31_AtomicRecordAndLink ==
    [][/\ db' # db =>
            /\ img_pc = "db"
            /\ media_id \notin db.media_files
            /\ db'.media_files = db.media_files \cup {media_id}
            /\ db'.featured = [db.featured EXCEPT ![articles[img_idx]] = media_id]
       /\ \A id \in db'.media_files : \E slug \in DOMAIN db'.featured : db'.featured[slug] = id
       /\ \A slug \in DOMAIN db'.featured :
             db'.featured[slug] # None => db'.featured[slug] \in db'.media_files
      ]_vars

\* One transaction was committed and a later one rolled back.
C31_Witness ==
    /\ db.media_files # {}
    /\ img_mem.failed # <<>>
    /\ Cardinality(minio) > Cardinality(db.media_files)
    /\ img_pc = "loop"
\* C32: an author create request is sent only while wn_author_id is empty;
\* within an invocation wn_author_id is set once at most, and short of a
\* --reset the author id in the state file never changes once it is there;
\* whenever "author" is in completed_steps, in memory or in the state file,
\* wn_author_id is not empty.
C32_AuthorSingleton ==
    [][/\ (AuthorEntity \in reqs' \ reqs \/ created'[AuthorEntity] # created[AuthorEntity]) =>
            mem.wn_author_id = None
       /\ (mem.wn_author_id # None /\ pc # "idle") => mem'.wn_author_id = mem.wn_author_id
       /\ (Load(disk).wn_author_id # None /\ disk'.st = "valid") =>
            Load(disk').wn_author_id = Load(disk).wn_author_id
       /\ disk.st = "corrupt" => disk'.st \in {"corrupt", "absent"}
       /\ \A d \in {mem', Load(disk')} :
             "author" \in Range(d.completed_steps) => d.wn_author_id # None
      ]_vars

\* The author was created twice on the target, the first id lost with a
\* killed process, and the ledger holds the second with the step done.
C32_Witness ==
    /\ created[AuthorEntity] = 2
    /\ "author" \in Range(Load(disk).completed_steps)
    /\ Load(disk).wn_author_id = NewId(AuthorEntity, 2)
\* C33: completed_steps never holds a step name twice, in memory or in the
\* state file, and short of a --reset it only grows: the names in the state
\* file stay in the state file and are in the ledger of every later
\* invocation, and a name in memory stays for the rest of the invocation.
C33_CompletedStepsGrow ==
    [][LET NoRepeat(l) == \A i, j \in DOMAIN l : l[i] = l[j] => i = j
           on_file == Load(disk).completed_steps
           reset == pc = "idle" /\ run'.mode = "reset"
       IN /\ NoRepeat(mem'.completed_steps)
          /\ NoRepeat(Load(disk').completed_steps)
          /\ pc # "idle" =>
                SubSeq(mem'.completed_steps, 1, Len(mem.completed_steps)) = mem.completed_steps
          /\ (disk.st = "valid" /\ ~reset) =>
                \A i \in DOMAIN on_file :
                    /\ disk'.st = "valid"
                    /\ Len(Load(disk').completed_steps) >= i
                    /\ Load(disk').completed_steps[i] = on_file[i]
          /\ (pc = "idle" /\ pc' # "idle") => mem'.completed_steps = on_file
      ]_vars

\* C34: every reference of a create request is a value the ledger holds when
\* the payload is built. An article's categoryId is the wp_categories entry
\* of one of the post's categories, its authorId is wn_author_id, its
\* featuredImageId is the wp_media_wn entry of the post's featured media and
\* never an id of wp_media_si; a page's featuredImageId is the wp_media_si
\* entry of the page's featured media and never an id of wp_media_wn; a
\* reference the ledger has no entry for is not in the payload.
C34_PayloadReferences ==
    LET Values(m) == {m[k] : k \in DOMAIN m}
        data == tf.data
        fm == Str(tf.post.featured_media)
        Has(field) == field \in DOMAIN tf.payload
    IN /\ tf.pc \in {"post", "continue"} =>
            LET cats == {Str(tf.post.categories[k]) : k \in DOMAIN tf.post.categories}
            IN /\ Has("categoryId") =>
                     \E c \in cats \cap DOMAIN data.wp_categories :
                         tf.payload["categoryId"] = data.wp_categories[c]
               /\ cats \cap DOMAIN data.wp_categories = {} => ~Has("categoryId")
               /\ Has("authorId") =>
                     data.wn_author_id # None /\ tf.payload["authorId"] = data.wn_author_id
               /\ data.wn_author_id = None => ~Has("authorId")
               /\ Has("featuredImageId") =>
                     /\ fm \in DOMAIN data.wp_media_wn
                     /\ tf.payload["featuredImageId"] = data.wp_media_wn[fm]
                     /\ tf.payload["featuredImageId"] \notin Values(data.wp_media_si)
               /\ fm \notin DOMAIN data.wp_media_wn => ~Has("featuredImageId")
               /\ (tf.pc = "continue" /\ ~tf.dry) => tf.outcome # "none"
       /\ tf.pc \in {"page_post", "page_continue"} =>
            /\ Has("featuredImageId") =>
                  /\ fm \in DOMAIN data.wp_media_si
                  /\ tf.payload["featuredImageId"] = data.wp_media_si[fm]
                  /\ tf.payload["featuredImageId"] \notin Values(data.wp_media_wn)
            /\ fm \notin DOMAIN data.wp_media_si => ~Has("featuredImageId")
            /\ ~Has("categoryId") /\ ~Has("authorId")
            /\ (tf.pc = "page_continue" /\ ~tf.dry) => tf.outcome # "none"

\* An article was created with a category, the author and an image, the
\* image being in both media maps under the same source id.
C34_Witness ==
    /\ tf.pc = "continue" /\ tf.outcome = "ok"
    /\ {"categoryId", "authorId", "featuredImageId"} \subseteq DOMAIN tf.payload
    /\ Str(tf.post.featured_media) \in DOMAIN tf.data.wp_media_si
    /\ tf.payload["featuredImageId"] # tf.data.wp_media_si[Str(tf.post.featured_media)]

\* C35: migrate_media sends the upload of a source media item to WN only if
\* the item is the featured media of a source post, and to SI only if it is
\* the featured media of a source page whose id is in WP_PAGE_MAP; an item
\* that is in neither group has no entry in the media map of that service.
\* An item with an empty source URL or whose mime type is not an image is
\* never downloaded, its upload is never sent, and it has no entry in
\* wp_media_wn or wp_media_si, in memory or in the state file.
C35_MediaTargeting ==
    \A k \in 1..NumMedia :
        LET media == WpMedia[k]
            key == Str(media.id)
            of_post == \E p \in 1..NumPosts : WpPosts[p].featured_media = media.id
            of_page == \E p \in 1..NumPages :
                          /\ WpPages[p].id \in WP_PAGE_MAP
                          /\ WpPages[p].featured_media = media.id
            skipped == \/ media.source_url = ""
                       \/ media.mime_type \notin {"image/jpeg", "image/png", "image/gif"}
            Untouched(kind) ==
                /\ <<kind, key>> \notin reqs
                /\ created[<<kind, key>>] = 0
                /\ key \notin DOMAIN mem[MapOf(kind)]
                /\ key \notin DOMAIN Load(disk)[MapOf(kind)]
        IN /\ ~of_post => Untouched("media_wn")
           /\ ~of_page => Untouched("media_si")
           /\ skipped =>
                 /\ cache[media.id] = "none"
                 /\ Untouched("media_wn")
                 /\ Untouched("media_si")

\* The media step is done: the image of a post is in wp_media_wn only, the
\* image of a mapped page in wp_media_si only, the PDF of a post and the
\* image without URL in neither.
C35_Witness ==
    /\ "media" \in Range(Load(disk).completed_steps)
    /\ DOMAIN Load(disk).wp_media_wn = {Str(WpMedia[1].id)}
    /\ DOMAIN Load(disk).wp_media_si = {Str(WpMedia[2].id)}
    /\ {WpMedia[1].id, WpMedia[3].id} \subseteq post_media_ids
    /\ {WpMedia[2].id, WpMedia[4].id} \subseteq page_media_ids
    /\ WpMedia[1].id \in {WpPages[k].featured_media : k \in 1..NumPages}

====
